---- MODULE Spec2Model ----
(***************************************************************************)
(* Model of the travel-guide agent: the LangGraph decision loop of         *)
(* Fastapi/agent/agent.py (llm_call, tool_node, should_continue, the       *)
(* MemorySaver checkpointer) and the three inbound entry points            *)
(* (Fastapi/main.py, main.py, app/main.py).                                *)
(***************************************************************************)
EXTENDS Integers, Sequences, FiniteSets, TLC

(* ------------------------------ bounds --------------------------------- *)
\* total number of utterances the clients send in one behaviour
MaxInbound == 2
\* total number of tool calls the reasoning model requests in one behaviour
MaxToolCalls == 2
\* number of tool calls the reasoning model puts in one assistant message
MaxCalls == 2

(* --------------------------- fixed universes --------------------------- *)
\* client connections / callers
Conns == {"c1", "c2"}
\* thread identifiers a caller can supply; "1" is also the literal of app/main.py
Threads == {"1", "2"}
\* the three application modules of the repository, each with its own gateway
Apps == {"Fastapi", "main", "app"}

\* agent.py:222 - the five registered tools, in registration order
tools == <<"nearby_place_search", "get_weather", "get_detailed_events_tool",
           "get_available_event_categories", "web_search">>

\* agent.py:223 - name-keyed registry built from the tools list
tools_by_name == {tools[i] : i \in 1..Len(tools)}

\* a tool name the reasoning model can emit although nothing is registered
\* under it (tool_call["name"] is whatever the model wrote)
HallucinatedNames == {"book_flight"}

\* names that can appear in tool_call["name"]
CallNames == tools_by_name \cup HallucinatedNames

\* what the external collaborator of a tool does during one invocation
Faults == {"none", "http_error", "exception", "malformed"}

VARIABLES
    app,        \* which application module this process runs
    memory,     \* MemorySaver: thread_id -> messages of the latest checkpoint
    pc,         \* per connection: position of its handler
    tid,        \* per connection: the thread_id the caller supplied
    state,      \* per connection: MessagesState of the run in progress
    sent,       \* per connection: what the gateway sent for the current utterance
    pending,    \* per connection: utterances sent by the client, not yet read
    inbound,    \* utterances sent so far (bounded by MaxInbound)
    ncalls,     \* tool calls requested so far (bounded by MaxToolCalls)
    open,       \* per connection: the client's end of the channel is open
    _CITY_CACHE, \* event_tools.py:16 - cache key -> events by category
    now,        \* time.time(), in seconds
    last,       \* the last call of an adapter operation: arguments and outcome
    inflight    \* event requests running side by side: their objects and positions

\* the state of the gateways and of the decision loop
gatewayVars == <<app, memory, pc, tid, state, sent, pending, inbound, ncalls, open>>

\* the state of the data provider adapters
toolVars == <<_CITY_CACHE, now, last, inflight>>

vars == <<gatewayVars, toolVars>>

(* ------------------------------ messages ------------------------------- *)
\* HumanMessage(content=data); sess is the identifier of the session it came from
HumanMessage(s) ==
    [role |-> "user", content |-> "utterance", tool_calls |-> <<>>,
     tool_call_id |-> 0, sess |-> s]

\* the AIMessage returned by llm_with_tools.invoke
AIMessage(s, content, calls) ==
    [role |-> "assistant", content |-> content, tool_calls |-> calls,
     tool_call_id |-> 0, sess |-> s]

\* ToolMessage(content=observation, tool_call_id=tool_call["id"])
ToolMessage(s, observation, id) ==
    [role |-> "tool", content |-> observation, tool_calls |-> <<>>,
     tool_call_id |-> id, sess |-> s]

\* the tool_calls lists the model can emit with n calls: ids are unique
\* within the message (call_1 .. call_n), names are free; a message that
\* requests tools is a pure tool-call request (empty content)
ToolCallLists(n) ==
    {[i \in 1..n |-> [id |-> i, name |-> f[i]]] : f \in [1..n -> CallNames]}

(* -------------------------------- tools -------------------------------- *)
\* agent.py:29-61 - the whole body is inside try/except Exception
nearby_place_search(fault) ==
    IF fault = "none" THEN "ok" ELSE "error"

\* agent.py:63-95 - no try/except: requests.get (78) and response.json() (79)
\* raise into the caller; a non-200 JSON response gives the error record
get_weather(fault) ==
    CASE fault = "none"       -> "ok"
      [] fault = "http_error" -> "error"
      [] fault = "exception"  -> "raise"
      [] fault = "malformed"  -> "raise"

\* agent.py:97-156 with event_tools.py:217-326 - the browser is started
\* outside the scraper's try (226); faults inside the try are swallowed and
\* give an empty scrape, which the tool returns as a success payload
get_detailed_events_tool(fault) ==
    CASE fault = "none"       -> "ok"
      [] fault = "http_error" -> "ok"
      [] fault = "exception"  -> "raise"
      [] fault = "malformed"  -> "ok"

\* agent.py:158-196 - body inside try/except Exception; an empty scrape is
\* turned into {"error": ...}
get_available_event_categories(fault) ==
    IF fault = "none" THEN "ok" ELSE "error"

\* agent.py:199-218 - body inside try/except Exception, text result
web_search(fault) ==
    IF fault = "none" THEN "ok" ELSE "error"

\* tool.invoke(tool_call["args"]) for a registered tool
ToolInvoke(name, fault) ==
    CASE name = "nearby_place_search"            -> nearby_place_search(fault)
      [] name = "get_weather"                    -> get_weather(fault)
      [] name = "get_detailed_events_tool"       -> get_detailed_events_tool(fault)
      [] name = "get_available_event_categories" -> get_available_event_categories(fault)
      [] name = "web_search"                     -> web_search(fault)

\* agent.py:306-307 - one iteration of the loop of tool_node: the registry
\* lookup is a plain dict subscript (KeyError for an unknown name)
Observation(call, fault) ==
    IF call.name \in tools_by_name THEN ToolInvoke(call.name, fault) ELSE "raise"

(* ---------------------------- decision loop ---------------------------- *)
\* agent.py:311-318
should_continue(messages) ==
    IF Len(messages[Len(messages)].tool_calls) > 0 THEN "Action" ELSE "END"

\* agent.py:328-336 - conditional edge of llm_call
NextNode(messages) ==
    IF should_continue(messages) = "Action" THEN "environment" ELSE "recv"

\* the thread_id put in config: the path parameter for the websocket
\* gateways (Fastapi/main.py:21, main.py:51), the literal "1" in app/main.py:14
ConfigThread(c) ==
    IF app = "app" THEN "1" ELSE tid[c]

\* a Reasoning/Acting cycle is in progress on connection c
Running(c) == pc[c] \in {"llm_call", "environment"}

\* what the gateway forwards of one streamed message
\* Fastapi/main.py:32-33 forwards non-empty AIMessage content only;
\* main.py:57-59 forwards message.content of every streamed message;
\* app/main.py streams nothing
Forward(m) ==
    CASE app = "Fastapi" ->
            IF m.role = "assistant" /\ m.content # "" THEN <<m.content>> ELSE <<>>
      [] app = "main" -> <<m.content>>
      [] app = "app"  -> <<>>

RECURSIVE ForwardAll(_)
ForwardAll(ms) ==
    IF ms = <<>> THEN <<>> ELSE Forward(Head(ms)) \o ForwardAll(Tail(ms))

\* an empty dict
EmptyDict == [k \in {} |-> <<>>]

\* no adapter operation has been called yet
NoCall == [op |-> "none"]

\* the event requests that may run side by side (sync tools run on the
\* executor's threads, one request per thread)
Requests == {"r1", "r2"}

\* no request has been made: no scrape result object exists, the slot refers
\* to none, every request is idle
NoRequests ==
    [heap |-> EmptyDict, origin |-> EmptyDict, slot |-> "none",
     req |-> [r \in Requests |->
                [pc |-> "idle", city |-> "", category |-> "", force_refresh |-> FALSE,
                 include_descriptions |-> FALSE, max_events |-> 0, obj |-> "none",
                 result |-> [kind |-> "none"]]]]

(* -------------------------------- Init --------------------------------- *)
Init ==
    /\ app \in Apps
    /\ memory = [t \in Threads |-> <<>>]
    /\ pc = [c \in Conns |-> "closed"]
    /\ tid = [c \in Conns |-> "1"]
    /\ state = [c \in Conns |-> <<>>]
    /\ sent = [c \in Conns |-> <<>>]
    /\ pending = [c \in Conns |-> 0]
    /\ inbound = 0
    /\ ncalls = 0
    /\ open = [c \in Conns |-> TRUE]
    /\ _CITY_CACHE = EmptyDict
    /\ now = 0
    /\ last = NoCall
    /\ inflight = NoRequests

(* ------------------------------- actions ------------------------------- *)
\* websocket.send_text of the streamed parts out on a channel whose client
\* end is closed raises in the handler; with nothing to send (the Fastapi
\* gateway skips tool messages and empty content, Fastapi/main.py:32) the
\* handler does not touch the channel and notices nothing
SendFails(c, out) ==
    ~open[c] /\ out # <<>>

\* the handler of c ends on the exception of a send on a closed channel: the
\* run it was iterating is abandoned with it, and the channel is gone
HandlerDies(c) ==
    /\ pc' = [pc EXCEPT ![c] = "closed"]
    /\ state' = [state EXCEPT ![c] = <<>>]
    /\ pending' = [pending EXCEPT ![c] = 0]
    /\ open' = [open EXCEPT ![c] = TRUE]
    /\ UNCHANGED sent

\* a client opens a connection with thread_id t in the path
\* (websocket.accept) or, for app/main.py, a caller starts posting requests
\* that carry thread_id t
Connect(c, t) ==
    /\ pc[c] = "closed"
    /\ pc' = [pc EXCEPT ![c] = "recv"]
    /\ tid' = [tid EXCEPT ![c] = t]
    /\ UNCHANGED <<app, memory, state, sent, pending, inbound, ncalls, open>>
    /\ UNCHANGED toolVars

\* a client whose handler died on an exception opens the same session
\* again; what it had written and was not read is lost with the old channel
Reconnect(c) ==
    /\ pc[c] \in {"llm_failed", "tool_raised"}
    /\ pc' = [pc EXCEPT ![c] = "recv"]
    /\ sent' = [sent EXCEPT ![c] = <<>>]
    /\ pending' = [pending EXCEPT ![c] = 0]
    /\ open' = [open EXCEPT ![c] = TRUE]
    /\ UNCHANGED <<app, memory, tid, state, inbound, ncalls>>
    /\ UNCHANGED toolVars

\* the client writes one utterance on its channel; it is buffered until the
\* gateway reads it
ClientSend(c) ==
    /\ pc[c] \in {"recv", "llm_call", "environment"}
    /\ open[c]
    /\ inbound < MaxInbound
    /\ inbound' = inbound + 1
    /\ pending' = [pending EXCEPT ![c] = @ + 1]
    /\ UNCHANGED <<app, memory, pc, tid, state, sent, ncalls, open>>
    /\ UNCHANGED toolVars

\* mutant of CanReceive: a gateway that takes the next utterance while the
\* run of the previous one is still in progress
CanReceive_WhileRunning(c) ==
    pc[c] \in {"recv", "llm_call", "environment"}

\* the gateway is free to read: the handler of c waits in receive_text; the
\* handler of app/main.py calls the blocking agent.invoke on the event loop,
\* so no other request is taken up while one is served
CanReceive(c) ==
    /\ pc[c] = "recv"
    /\ app = "app" => \A d \in Conns : ~Running(d)

\* websocket_endpoint / chat: read one utterance and start one run - the
\* graph loads the thread's checkpoint, applies the input and checkpoints
Receive(c) ==
    /\ CanReceive(c)
    /\ pending[c] > 0
    /\ pending' = [pending EXCEPT ![c] = @ - 1]
    /\ LET t == ConfigThread(c)
           s == Append(memory[t], HumanMessage(tid[c]))
       IN /\ state' = [state EXCEPT ![c] = s]
          /\ memory' = [memory EXCEPT ![t] = s]
    /\ sent' = [sent EXCEPT ![c] = <<>>]
    /\ pc' = [pc EXCEPT ![c] = "llm_call"]
    /\ UNCHANGED <<app, tid, inbound, ncalls, open>>
    /\ UNCHANGED toolVars

\* what the handler does when the graph reaches END: the websocket gateways
\* go back to receive_text; app/main.py awaits the dict returned by
\* agent.invoke, which raises TypeError, so the reply is never returned
AtEnd(c, out) ==
    IF app = "app" THEN <<"http_500">> ELSE out

\* llm_call returns an assistant message: it is appended, checkpointed,
\* streamed, and should_continue routes the run
LlmCall(c) ==
    /\ pc[c] = "llm_call"
    /\ \E n \in 0..MaxCalls :
       /\ ncalls + n <= MaxToolCalls
       /\ \E calls \in ToolCallLists(n) :
          \E content \in (IF n = 0 THEN {"reply"} ELSE {""}) :
          LET m == AIMessage(tid[c], content, calls)
              s == Append(state[c], m)
              nxt == NextNode(s)
              out == sent[c] \o Forward(m)
          IN /\ ncalls' = ncalls + n
             /\ IF SendFails(c, Forward(m))
                THEN /\ HandlerDies(c)
                     /\ memory' \in {memory, [memory EXCEPT ![ConfigThread(c)] = s]}
                ELSE /\ state' = [state EXCEPT ![c] = IF nxt = "recv" THEN <<>> ELSE s]
                     /\ memory' = [memory EXCEPT ![ConfigThread(c)] = s]
                     /\ sent' = [sent EXCEPT ![c] =
                                   IF nxt = "recv" THEN AtEnd(c, out) ELSE out]
                     /\ pc' = [pc EXCEPT ![c] = nxt]
                     /\ UNCHANGED <<pending, open>>
    /\ UNCHANGED <<app, tid, inbound>>
    /\ UNCHANGED toolVars

\* llm_with_tools.invoke raises: nothing is appended, the exception leaves
\* the graph and the handler, which has no except clause
LlmFail(c) ==
    /\ pc[c] = "llm_call"
    /\ pc' = [pc EXCEPT ![c] = "llm_failed"]
    /\ sent' = [sent EXCEPT ![c] = IF app = "app" THEN <<"http_500">> ELSE @]
    /\ state' = [state EXCEPT ![c] = <<>>]
    /\ UNCHANGED <<app, memory, tid, pending, inbound, ncalls, open>>
    /\ UNCHANGED toolVars

\* mutant of ToolNodeResult: the loop stops one call short, so the last
\* tool call of a multi-call request gets no tool message
ToolNodeResult_DropsLast(s, calls, obs) ==
    [i \in 1..(IF Len(calls) > 1 THEN Len(calls) - 1 ELSE Len(calls)) |->
        ToolMessage(s, obs[i], calls[i].id)]

\* agent.py:304-309 - the messages tool_node returns for the given
\* observations, one per tool call, in request order
ToolNodeResult(s, calls, obs) ==
    [i \in 1..Len(calls) |-> ToolMessage(s, obs[i], calls[i].id)]

\* tool_node: every call is looked up and invoked; if none raises, the
\* result list is appended in one update and checkpointed, and the run
\* goes back to llm_call; if one raises, the exception leaves the graph
\* before anything is appended
ToolNode(c) ==
    /\ pc[c] = "environment"
    /\ LET calls == state[c][Len(state[c])].tool_calls
       IN \E faults \in [1..Len(calls) -> Faults] :
          LET obs == [i \in 1..Len(calls) |-> Observation(calls[i], faults[i])]
          IN IF \E i \in 1..Len(calls) : obs[i] = "raise"
             THEN /\ pc' = [pc EXCEPT ![c] = "tool_raised"]
                  /\ sent' = [sent EXCEPT ![c] = IF app = "app" THEN <<"http_500">> ELSE @]
                  /\ state' = [state EXCEPT ![c] = <<>>]
                  /\ UNCHANGED <<memory, pending, open>>
             ELSE LET r == ToolNodeResult(tid[c], calls, obs)
                      s == state[c] \o r
                  IN IF SendFails(c, ForwardAll(r))
                     THEN /\ HandlerDies(c)
                          /\ memory' \in {memory, [memory EXCEPT ![ConfigThread(c)] = s]}
                     ELSE /\ state' = [state EXCEPT ![c] = s]
                          /\ memory' = [memory EXCEPT ![ConfigThread(c)] = s]
                          /\ sent' = [sent EXCEPT ![c] = @ \o ForwardAll(r)]
                          /\ pc' = [pc EXCEPT ![c] = "llm_call"]
                          /\ UNCHANGED <<pending, open>>
    /\ UNCHANGED <<app, tid, inbound, ncalls>>
    /\ UNCHANGED toolVars

\* the steps of the process when the clients in C are the ones connecting
NextOn(C) ==
    \/ \E c \in C, t \in Threads : Connect(c, t)
    \/ \E c \in C : Reconnect(c)
    \/ \E c \in C : ClientSend(c)
    \/ \E c \in C : Receive(c)
    \/ \E c \in C : LlmCall(c)
    \/ \E c \in C : LlmFail(c)
    \/ \E c \in C : ToolNode(c)

Next == NextOn(Conns)

\* the process with any application module and concurrent clients
Spec == Init /\ [][Next]_vars

\* one client talking to the streaming gateway of Fastapi/main.py
InitSession == Init /\ app = "Fastapi"

NextSession == NextOn({"c1"})

SpecSession == InitSession /\ [][NextSession]_vars

\* the client of a websocket gateway closes its end of the channel. A handler
\* waiting in receive_text with nothing buffered gets WebSocketDisconnect and
\* ends; a handler inside the async-for over agent.astream is not told: no
\* code of the gateway cancels the run, which goes on until the handler next
\* touches the channel
Close(c) ==
    /\ app # "app"
    /\ open[c]
    /\ pc[c] \in {"recv", "llm_call", "environment"}
    /\ IF pc[c] = "recv" /\ pending[c] = 0
       THEN /\ pc' = [pc EXCEPT ![c] = "closed"]
            /\ UNCHANGED open
       ELSE /\ open' = [open EXCEPT ![c] = FALSE]
            /\ UNCHANGED pc
    /\ UNCHANGED <<app, memory, tid, state, sent, pending, inbound, ncalls>>
    /\ UNCHANGED toolVars

NextClose ==
    \/ NextSession
    \/ Close("c1")

\* one client of the streaming gateway that may close its channel at any time
SpecClose == InitSession /\ [][NextClose]_vars

(* ------------------------ event listings adapter ----------------------- *)
\* event_tools.py:17 - length of a cache epoch in seconds
_CACHE_TIMEOUT == 3600

\* event_tools.py:28-31
VALID_CATEGORIES ==
    <<"disco", "konzert", "theater", "medien", "sonstige",
      "kino", "literatur", "comedy", "vortrag", "kunst">>

\* city names a caller passes: two spellings of one city
Cities == {"Berlin", "berlin"}

\* str.lower() on the city names above
lower(city) ==
    CASE city = "Berlin" -> "berlin"
      [] OTHER           -> city

\* category arguments a caller passes: two valid ones and one that is not
CategoryArgs == {"konzert", "kino", "oper"}

\* max_events arguments a caller passes
MaxEventsArgs == {1, 10}

\* instants at which calls are made: two in the first epoch, one in the next
Times == {0, _CACHE_TIMEOUT - 1, _CACHE_TIMEOUT}

\* event_tools.py:290-296 - an event as the scraper builds it: the description
\* is empty, the url is empty when the listing has no link
Event(title, url) ==
    [title |-> title, description |-> "", event_url |-> url]

\* what one run of _scrape_city_events gives: events by category (empty when
\* the page has no events or an error was caught, event_tools.py:250-252,
\* 320-321), or an exception when the browser cannot be started (:226)
ScrapeResults ==
    { EmptyDict,
      [c \in {"konzert", "kino"} |->
          IF c = "konzert" THEN <<Event("jazz", "u1"), Event("rock", "")>>
          ELSE <<Event("film", "u3")>>],
      [c \in {"konzert"} |-> <<Event("pop", "")>>] }

ScrapeOutcomes ==
    [raised : {FALSE}, events : ScrapeResults] \cup
    [raised : {TRUE}, events : {EmptyDict}]

\* the outcomes a call can meet from the scrape it runs, if it runs one
ScrapesFor(cache, key, refresh) ==
    IF refresh \/ key \notin DOMAIN cache
    THEN ScrapeOutcomes
    ELSE {[raised |-> FALSE, events |-> EmptyDict]}

\* what the browser gives for the page of one event: a description or an
\* error
Pages == {"text", "error"}

\* what the description fetch of one call meets: the browser cannot be
\* started (event_tools.py:134), or one page outcome per event
FetchOutcomes(n) ==
    [raised : {FALSE}, pages : [1..n -> Pages]] \cup
    [raised : {TRUE}, pages : {[i \in 1..n |-> "error"]}]

\* the shapes of what an operation gives back
EventList(events) == [kind |-> "events", events |-> events]
Counts(counts)    == [kind |-> "counts", counts |-> counts]
Error(text)       == [kind |-> "error", error |-> text]
Payload(fields)   == [kind |-> "payload", payload |-> fields]
Raised            == [kind |-> "raise"]

\* mutant of cache_key: the epoch is left out of the key
cache_key_NoEpoch(city, t) ==
    <<lower(city), 0>>

\* event_tools.py:59 - f"{city.lower()}_{int(time.time() // _CACHE_TIMEOUT)}"
cache_key(city, t) ==
    <<lower(city), t \div _CACHE_TIMEOUT>>

\* dict.get(k, [])
Get(d, k) == IF k \in DOMAIN d THEN d[k] ELSE <<>>

\* d[k] = v
Put(d, k, v) == [x \in DOMAIN d \cup {k} |-> IF x = k THEN v ELSE d[x]]

\* events[:n]
Slice(events, n) ==
    SubSeq(events, 1, IF n < Len(events) THEN n ELSE Len(events))

\* mutant of IsValidCategory: the membership test is left out
IsValidCategory_AcceptsAll(category) ==
    category = category

\* event_tools.py:53 - category in VALID_CATEGORIES
IsValidCategory(category) ==
    \E i \in 1..Len(VALID_CATEGORIES) : VALID_CATEGORIES[i] = category

\* event_tools.py:54-56 - the text of the error for a category that is not
\* valid: the category and the joined list of valid ones
InvalidCategoryText(category) ==
    <<"Invalid category", category, "Valid categories", VALID_CATEGORIES>>

\* event_tools.py:139-171 - the description one event gets from its page
Described(event, page) ==
    IF event.event_url = "" THEN event
    ELSE [event EXCEPT !.description =
            CASE page = "text"  -> "text"
              [] page = "error" -> "Description could not be loaded"]

\* mutant of Lookup: the refresh flag is not looked at, so a forced refresh
\* is served from the slot
Lookup_IgnoresRefresh(cache, key, refresh, scrape) ==
    IF key \notin DOMAIN cache
    THEN [raised |-> scrape.raised,
          all_events |-> scrape.events,
          cache |-> IF scrape.raised THEN cache ELSE Put(cache, key, scrape.events),
          scraped |-> 1]
    ELSE [raised |-> FALSE, all_events |-> cache[key], cache |-> cache, scraped |-> 0]

\* event_tools.py:61-67 - the lookup every operation starts with: the events
\* it works with, the cache it leaves, and the number of scrapes it ran
Lookup(cache, key, refresh, scrape) ==
    IF refresh \/ key \notin DOMAIN cache
    THEN [raised |-> scrape.raised,
          all_events |-> scrape.events,
          cache |-> IF scrape.raised THEN cache ELSE Put(cache, key, scrape.events),
          scraped |-> 1]
    ELSE [raised |-> FALSE, all_events |-> cache[key], cache |-> cache, scraped |-> 0]

\* mutant of get_events_by_category: the category is validated after the
\* lookup, so a rejected call has already scraped and stored
get_events_by_category_ValidatesLate(cache, t, city, category, max_events, include_descriptions, force_refresh, scrape, fetch) ==
    LET l == Lookup(cache, cache_key(city, t), force_refresh, scrape)
    IN IF l.raised
       THEN [result |-> Raised, cache |-> l.cache, scraped |-> l.scraped]
       ELSE IF ~IsValidCategory(category)
       THEN [result |-> Error(InvalidCategoryText(category)), cache |-> l.cache, scraped |-> l.scraped]
       ELSE [result |-> EventList(Slice(Get(l.all_events, category), max_events)), cache |-> l.cache, scraped |-> l.scraped]

\* event_tools.py:33-77 - the result, the cache afterwards and the number of
\* scrapes. The events of the slice are the objects held in the cache, so the
\* descriptions written by _add_descriptions_to_events (117-175) show in the
\* cache slot as well
get_events_by_category(cache, t, city, category, max_events, include_descriptions, force_refresh, scrape, fetch) ==
    IF ~IsValidCategory(category)
    THEN [result |-> Error(InvalidCategoryText(category)), cache |-> cache, scraped |-> 0]
    ELSE LET key == cache_key(city, t)
             l == Lookup(cache, key, force_refresh, scrape)
             category_events == Slice(Get(l.all_events, category), max_events)
         IN IF l.raised
            THEN [result |-> Raised, cache |-> l.cache, scraped |-> l.scraped]
            ELSE IF ~include_descriptions \/ category_events = <<>> \/ category = "kino"
            THEN [result |-> EventList(category_events), cache |-> l.cache,
                  scraped |-> l.scraped]
            ELSE IF fetch.raised
            THEN [result |-> Raised, cache |-> l.cache, scraped |-> l.scraped]
            ELSE LET n == Len(category_events)
                     described == [i \in 1..n |->
                                     Described(category_events[i], fetch.pages[i])]
                     stored == [i \in 1..Len(l.all_events[category]) |->
                                  IF i <= n THEN described[i]
                                  ELSE l.all_events[category][i]]
                 IN [result |-> EventList(described),
                     cache |-> Put(l.cache, key,
                                   Put(l.all_events, category, stored)),
                     scraped |-> l.scraped]

\* mutant of get_available_categories: the cache test is on the truth value
\* of the slot (an empty scrape counts as no slot), so it scrapes again
get_available_categories_RescrapesEmpty(cache, t, city, scrape) ==
    LET key == cache_key(city, t)
        l == Lookup(cache, key, key \in DOMAIN cache /\ cache[key] = EmptyDict, scrape)
        filled == {c \in DOMAIN l.all_events : Len(l.all_events[c]) > 0}
    IN IF l.raised
       THEN [result |-> Raised, cache |-> l.cache, scraped |-> l.scraped]
       ELSE [result |-> Counts([c \in filled |-> Len(l.all_events[c])]),
             cache |-> l.cache, scraped |-> l.scraped]

\* event_tools.py:79-98 - counts of the categories that have events
get_available_categories(cache, t, city, scrape) ==
    LET l == Lookup(cache, cache_key(city, t), FALSE, scrape)
        filled == {c \in DOMAIN l.all_events : Len(l.all_events[c]) > 0}
    IN IF l.raised
       THEN [result |-> Raised, cache |-> l.cache, scraped |-> l.scraped]
       ELSE [result |-> Counts([c \in filled |-> Len(l.all_events[c])]),
             cache |-> l.cache, scraped |-> l.scraped]

\* position of a category in VALID_CATEGORIES (0 for any other)
Rank(c) ==
    IF IsValidCategory(c)
    THEN CHOOSE i \in 1..Len(VALID_CATEGORIES) : VALID_CATEGORIES[i] = c
    ELSE 0

\* all_events.items() - the categories of a scrape in insertion order; the
\* pages modelled list their events in the order of VALID_CATEGORIES
RECURSIVE Items(_, _)
Items(d, keys) ==
    IF keys = {} THEN <<>>
    ELSE LET c == CHOOSE x \in keys : \A y \in keys : Rank(x) <= Rank(y)
         IN <<c>> \o Items(d, keys \ {c})

\* event_tools.py:201-203 - keyword in title or description (texts and
\* keywords are single words here, so containment is equality)
Matches(event, keyword) ==
    event.title = keyword \/ event.description = keyword

\* event_tools.py:201-209 - the matching events of one category, each a
\* copy with the category added
RECURSIVE MatchesOf(_, _, _)
MatchesOf(events, category, keyword) ==
    IF events = <<>> THEN <<>>
    ELSE (IF Matches(Head(events), keyword)
          THEN <<[title |-> Head(events).title,
                  description |-> Head(events).description,
                  event_url |-> Head(events).event_url,
                  category |-> category]>>
          ELSE <<>>) \o MatchesOf(Tail(events), category, keyword)

RECURSIVE AllMatches(_, _, _)
AllMatches(d, cats, keyword) ==
    IF cats = <<>> THEN <<>>
    ELSE MatchesOf(d[Head(cats)], Head(cats), keyword)
            \o AllMatches(d, Tail(cats), keyword)

\* event_tools.py:177-214 - the loop returns as soon as the list holds
\* max_events matches, which it tests after appending one
search_events(cache, t, city, keyword, max_events, scrape) ==
    LET l == Lookup(cache, cache_key(city, t), FALSE, scrape)
        found == AllMatches(l.all_events, Items(l.all_events, DOMAIN l.all_events),
                            keyword)
    IN IF l.raised
       THEN [result |-> Raised, cache |-> l.cache, scraped |-> l.scraped]
       ELSE [result |-> EventList(Slice(found, IF max_events < 1 THEN 1 ELSE max_events)),
             cache |-> l.cache, scraped |-> l.scraped]

\* agent.py:97-156, tool get_detailed_events_tool - always a forced refresh
\* with descriptions (131-136); an error dict is passed on, a list becomes
\* the payload; nothing catches an exception
DetailedEventsTool(cache, t, city, category, max_events, scrape, fetch) ==
    LET r == get_events_by_category(cache, t, city, category, max_events,
                                    TRUE, TRUE, scrape, fetch)
    IN CASE r.result.kind = "error" -> [r EXCEPT !.result = Error(r.result.error)]
         [] r.result.kind = "raise" -> r
         [] r.result.kind = "events" ->
               [r EXCEPT !.result =
                   Payload([city |-> city, category |-> category,
                            total_events |-> Len(r.result.events),
                            events |-> r.result.events])]

\* mutant of AvailableEventCategoriesTool: the test for an empty mapping
\* (agent.py:187-188) is left out
AvailableEventCategoriesTool_ReturnsEmptyMapping(cache, t, city, scrape) ==
    LET r == get_available_categories(cache, t, city, scrape)
    IN CASE r.result.kind = "raise" ->
               [r EXCEPT !.result = Error(<<"exception">>)]
         [] OTHER ->
               [r EXCEPT !.result =
                   Payload([city |-> city, available_categories |-> r.result.counts])]

\* agent.py:158-196, tool get_available_event_categories - an empty mapping
\* and any exception become {"error": ...}
AvailableEventCategoriesTool(cache, t, city, scrape) ==
    LET r == get_available_categories(cache, t, city, scrape)
    IN CASE r.result.kind = "raise" ->
               [r EXCEPT !.result = Error(<<"exception">>)]
         [] r.result.counts = EmptyDict ->
               [r EXCEPT !.result = Error(<<"No event categories found for", city>>)]
         [] OTHER ->
               [r EXCEPT !.result =
                   Payload([city |-> city, available_categories |-> r.result.counts])]

\* the record kept of a call: the operation, its arguments, the cache key it
\* computed, what came of it, and (prev) the operation and the number of
\* scrapes of the call before it if that call returned and computed the same
\* cache key
CallRecord(op, city, category, force_refresh, r) ==
    [op |-> op, key |-> cache_key(city, now), category |-> category,
     force_refresh |-> force_refresh, result |-> r.result, scraped |-> r.scraped,
     prev |-> IF last.op # "none" /\ last.key = cache_key(city, now)
                 /\ last.result.kind # "raise"
              THEN [op |-> last.op, scraped |-> last.scraped]
              ELSE [op |-> "none", scraped |-> 0]]

\* the outcomes a call can meet from the description fetch it runs, if it
\* runs one (event_tools.py:73, 123): one page per event of the slice
FetchesFor(cache, t, city, category, max_events, include_descriptions, force_refresh, scrape) ==
    LET l == Lookup(cache, cache_key(city, t), force_refresh, scrape)
        n == Len(Slice(Get(l.all_events, category), max_events))
    IN IF include_descriptions /\ IsValidCategory(category) /\ category # "kino"
          /\ ~l.raised /\ n > 0
       THEN FetchOutcomes(n)
       ELSE {[raised |-> FALSE, pages |-> <<>>]}

\* a caller runs EventScraperTool.get_events_by_category
CallGetEventsByCategory ==
    /\ \E city \in Cities, category \in CategoryArgs, max_events \in MaxEventsArgs,
          include_descriptions \in BOOLEAN, force_refresh \in BOOLEAN :
          \E scrape \in ScrapesFor(_CITY_CACHE, cache_key(city, now),
                                    force_refresh /\ IsValidCategory(category)) :
          \E fetch \in FetchesFor(_CITY_CACHE, now, city, category, max_events,
                                   include_descriptions, force_refresh, scrape) :
          LET r == get_events_by_category(_CITY_CACHE, now, city, category, max_events,
                                          include_descriptions, force_refresh,
                                          scrape, fetch)
          IN /\ _CITY_CACHE' = r.cache
             /\ last' = CallRecord("get_events_by_category", city, category,
                                   force_refresh, r)
    /\ UNCHANGED <<now, inflight, gatewayVars>>

\* a caller runs EventScraperTool.get_available_categories
CallGetAvailableCategories ==
    /\ \E city \in Cities :
          \E scrape \in ScrapesFor(_CITY_CACHE, cache_key(city, now), FALSE) :
          LET r == get_available_categories(_CITY_CACHE, now, city, scrape)
          IN /\ _CITY_CACHE' = r.cache
             /\ last' = CallRecord("get_available_categories", city, "", FALSE, r)
    /\ UNCHANGED <<now, inflight, gatewayVars>>

\* a caller runs EventScraperTool.search_events
CallSearchEvents ==
    /\ \E city \in Cities, keyword \in {"jazz", "text"}, max_events \in MaxEventsArgs :
          \E scrape \in ScrapesFor(_CITY_CACHE, cache_key(city, now), FALSE) :
          LET r == search_events(_CITY_CACHE, now, city, keyword, max_events, scrape)
          IN /\ _CITY_CACHE' = r.cache
             /\ last' = CallRecord("search_events", city, keyword, FALSE, r)
    /\ UNCHANGED <<now, inflight, gatewayVars>>

\* tool_node invokes the tool get_detailed_events_tool
CallDetailedEventsTool ==
    /\ \E city \in Cities, category \in CategoryArgs, max_events \in MaxEventsArgs :
          \E scrape \in ScrapesFor(_CITY_CACHE, cache_key(city, now),
                                    IsValidCategory(category)) :
          \E fetch \in FetchesFor(_CITY_CACHE, now, city, category, max_events,
                                   TRUE, TRUE, scrape) :
          LET r == DetailedEventsTool(_CITY_CACHE, now, city, category, max_events,
                                      scrape, fetch)
          IN /\ _CITY_CACHE' = r.cache
             /\ last' = CallRecord("get_detailed_events_tool", city, category, TRUE, r)
    /\ UNCHANGED <<now, inflight, gatewayVars>>

\* tool_node invokes the tool get_available_event_categories
CallAvailableEventCategoriesTool ==
    /\ \E city \in Cities :
          \E scrape \in ScrapesFor(_CITY_CACHE, cache_key(city, now), FALSE) :
          LET r == AvailableEventCategoriesTool(_CITY_CACHE, now, city, scrape)
          IN /\ _CITY_CACHE' = r.cache
             /\ last' = CallRecord("get_available_event_categories", city, "", FALSE, r)
    /\ UNCHANGED <<now, inflight, gatewayVars>>

\* time passes between calls
Tick ==
    /\ \E t \in Times : t > now /\ now' = t
    /\ UNCHANGED <<_CITY_CACHE, last, inflight, gatewayVars>>

InitEvents == Init /\ app = "Fastapi"

NextEvents ==
    \/ CallGetEventsByCategory
    \/ CallGetAvailableCategories
    \/ CallSearchEvents
    \/ Tick

\* callers of the operations of EventScraperTool, one call at a time
SpecEvents == InitEvents /\ [][NextEvents]_vars

NextEventTools ==
    \/ CallDetailedEventsTool
    \/ CallAvailableEventCategoriesTool
    \/ Tick

\* the two event tools of the agent, one call at a time
SpecEventTools == InitEvents /\ [][NextEventTools]_vars

\* event_tools.py:117-175 - the events after the call, whether it raised,
\* and the number of pages it fetched; fetch tells whether the browser
\* starts (event_tools.py:134) and what the page of each event gives
_add_descriptions_to_events(events, category, fetch) ==
    IF category = "kino"
    THEN [raised |-> FALSE, events |-> events, fetched |-> 0]
    ELSE IF fetch.raised
    THEN [raised |-> TRUE, events |-> events, fetched |-> 0]
    ELSE [raised |-> FALSE,
          events |-> [i \in 1..Len(events) |-> Described(events[i], fetch.pages[i])],
          fetched |-> Cardinality({i \in 1..Len(events) : events[i].event_url # ""})]

\* most events given to _add_descriptions_to_events
MaxEvents == 3

\* the lists of events: the i-th has a link or has none
EventLists ==
    {[i \in 1..Len(linked) |->
         Event("event " \o ToString(i),
               IF linked[i] THEN "url " \o ToString(i) ELSE "")] :
       linked \in UNION {[1..n -> BOOLEAN] : n \in 0..MaxEvents}}

\* one call of _add_descriptions_to_events
CallAddDescriptions ==
    /\ last = NoCall
    /\ \E events \in EventLists, category \in {"konzert", "kino"} :
         \E fetch \in IF category = "kino"
                      THEN {[raised |-> FALSE, pages |-> <<>>]}
                      ELSE FetchOutcomes(Len(events)) :
           LET r == _add_descriptions_to_events(events, category, fetch)
           IN  last' = [op |-> "_add_descriptions_to_events", events |-> events,
                        category |-> category, fetch |-> fetch,
                        raised |-> r.raised, described |-> r.events,
                        fetched |-> r.fetched]
    /\ UNCHANGED <<_CITY_CACHE, now, inflight, gatewayVars>>

NextDescriptions == CallAddDescriptions

\* one batch of events to describe per behaviour
SpecDescriptions == InitEvents /\ [][NextDescriptions]_vars

(* ------------------- event requests side by side ---------------------- *)
(* src/main/llm_tools/event_tools.py: get_events_by_category run by two    *)
(* threads. A scrape result is one dict object: inflight.heap holds the    *)
(* objects by the request that scraped them, inflight.slot names the       *)
(* object the cache slot refers to, inflight.origin keeps each object as   *)
(* it was scraped. A statement of the code is one step; the description    *)
(* fetch of one request is one step.                                       *)

\* mutant of Assign: the categories the slot already holds are kept beside
\* those of the new result
Assign_Merges(cache, key, all_events) ==
    Put(cache, key, [c \in DOMAIN Get(cache, key) \cup DOMAIN all_events |-> IF c \in DOMAIN all_events THEN all_events[c] ELSE cache[key][c]])

\* event_tools.py:64 - _CITY_CACHE[cache_key] = all_events
Assign(cache, key, all_events) ==
    Put(cache, key, all_events)

\* event_tools.py:53-59 - the call is made: the category is validated and
\* the key is computed
BeginRequest(r) ==
    /\ last = NoCall
    /\ inflight.req[r].pc = "idle"
    /\ \E city \in Cities, category \in CategoryArgs, max_events \in MaxEventsArgs, include_descriptions \in BOOLEAN, force_refresh \in BOOLEAN :
         inflight' = [inflight EXCEPT !.req[r] = [inflight.req[r] EXCEPT
                         !.pc = IF IsValidCategory(category) THEN "check" ELSE "done",
                         !.city = city,
                         !.category = category,
                         !.max_events = max_events,
                         !.include_descriptions = include_descriptions,
                         !.force_refresh = force_refresh,
                         !.result = IF IsValidCategory(category)
                                    THEN @ ELSE Error(InvalidCategoryText(category))]]
    /\ UNCHANGED <<_CITY_CACHE, now, last, gatewayVars>>

\* event_tools.py:61 - if force_refresh or cache_key not in _CITY_CACHE
CheckCache(r) ==
    /\ inflight.req[r].pc = "check"
    /\ inflight' = [inflight EXCEPT !.req[r] = [inflight.req[r] EXCEPT
             !.pc = IF inflight.req[r].force_refresh
                       \/ cache_key(inflight.req[r].city, now) \notin DOMAIN _CITY_CACHE
                    THEN "scrape" ELSE "read"]]
    /\ UNCHANGED <<_CITY_CACHE, now, last, gatewayVars>>

\* event_tools.py:63 - all_events = _scrape_city_events(city): a new
\* object, or the exception of a browser that cannot be started
ScrapeCity(r) ==
    /\ inflight.req[r].pc = "scrape"
    /\ \E scrape \in ScrapeOutcomes :
         IF scrape.raised
         THEN inflight' = [inflight EXCEPT !.req[r] = [inflight.req[r] EXCEPT !.pc = "done", !.result = Raised]]
         ELSE inflight' = [inflight EXCEPT
                 !.heap = Put(@, r, scrape.events),
                 !.origin = Put(@, r, scrape.events),
                 !.req[r].obj = r,
                 !.req[r].pc = "store"]
    /\ UNCHANGED <<_CITY_CACHE, now, last, gatewayVars>>

\* event_tools.py:64 - the slot is made to refer to the object scraped
StoreSlot(r) ==
    /\ inflight.req[r].pc = "store"
    /\ _CITY_CACHE' = Assign(_CITY_CACHE, cache_key(inflight.req[r].city, now), inflight.heap[r])
    /\ inflight' = [inflight EXCEPT !.slot = r, !.req[r].pc = "slice"]
    /\ UNCHANGED <<now, last, gatewayVars>>

\* event_tools.py:67 - all_events = _CITY_CACHE[cache_key]: the object the
\* slot refers to now
ReadSlot(r) ==
    /\ inflight.req[r].pc = "read"
    /\ inflight' = [inflight EXCEPT !.req[r].obj = inflight.slot, !.req[r].pc = "slice"]
    /\ UNCHANGED <<_CITY_CACHE, now, last, gatewayVars>>

\* event_tools.py:70-77 - the slice of the category, the descriptions
\* written into its events (the events of the object itself), the return
FinishRequest(r) ==
    /\ inflight.req[r].pc = "slice"
    /\ LET q == inflight.req[r]
           all_events == inflight.heap[q.obj]
           category_events == Slice(Get(all_events, q.category), q.max_events)
           n == Len(category_events)
       IN IF ~q.include_descriptions \/ category_events = <<>>
          THEN /\ inflight' = [inflight EXCEPT !.req[r] = [q EXCEPT !.pc = "done", !.result = EventList(category_events)]]
               /\ UNCHANGED _CITY_CACHE
          ELSE \E fetch \in IF q.category = "kino" THEN {[raised |-> FALSE, pages |-> <<>>]} ELSE FetchOutcomes(n) :
               LET d == _add_descriptions_to_events(category_events, q.category, fetch)
                   stored == [i \in 1..Len(all_events[q.category]) |->
                                IF i <= n THEN d.events[i] ELSE all_events[q.category][i]]
                   object == Put(all_events, q.category, stored)
               IN /\ inflight' = [inflight EXCEPT
                         !.heap = Put(@, q.obj, object),
                         !.req[r].pc = "done",
                         !.req[r].result = IF d.raised THEN Raised ELSE EventList(d.events)]
                  /\ _CITY_CACHE' = IF inflight.slot = q.obj
                                    THEN Put(_CITY_CACHE, cache_key(q.city, now), object)
                                    ELSE _CITY_CACHE
    /\ UNCHANGED <<now, last, gatewayVars>>

NextRace ==
    \E r \in Requests :
       \/ BeginRequest(r)
       \/ CheckCache(r)
       \/ ScrapeCity(r)
       \/ StoreSlot(r)
       \/ ReadSlot(r)
       \/ FinishRequest(r)

\* two requests for the events of one city in one epoch, their statements
\* interleaved in any order
SpecRace == InitEvents /\ [][NextRace]_vars

(* ------------------- upstream requests with retries ------------------- *)
(* src/main/llm_tools/googleapi_tool.py: TravelAssistant._make_request    *)

\* googleapi_tool.py:31 - max_retries: int = 3
max_retries == 3

\* largest retry budget a caller passes
MaxRetries == 4

\* what one attempt meets: a JSON answer, or one of the exceptions that
\* requests raises from get() and raise_for_status(), all of them a
\* requests.exceptions.RequestException
AttemptOutcomes == {"ok", "timeout", "connection_error", "http_error"}

RequestException == AttemptOutcomes \ {"ok"}

\* mutant of IsLastAttempt: the comparison is off by one
IsLastAttempt_OffByOne(attempt, retries) ==
    attempt = retries

\* googleapi_tool.py:39 - if attempt == max_retries - 1
IsLastAttempt(attempt, retries) ==
    attempt = retries - 1

\* googleapi_tool.py:33-41 - the body of the loop for `attempt` and the
\* iterations after it; outcomes[attempt + 1] is what this attempt meets,
\* waits are the sleeps in milliseconds
RECURSIVE attempt_loop(_, _, _)
attempt_loop(attempt, outcomes, retries) ==
    IF attempt >= retries
    THEN [status |-> "none", attempts |-> attempt, waits |-> <<>>]
    ELSE IF outcomes[attempt + 1] \notin RequestException
    THEN [status |-> "ok", attempts |-> attempt + 1, waits |-> <<>>]
    ELSE IF IsLastAttempt(attempt, retries)
    THEN [status |-> "raise", attempts |-> attempt + 1, waits |-> <<>>]
    ELSE LET rest == attempt_loop(attempt + 1, outcomes, retries)
         IN  [rest EXCEPT !.waits = <<500 * (attempt + 1)>> \o @]

\* googleapi_tool.py:31-41
_make_request(outcomes, retries) ==
    attempt_loop(0, outcomes, retries)

\* one request: the caller's budget and what each attempt would meet
CallMakeRequest ==
    /\ last = NoCall
    /\ \E retries \in 1..MaxRetries :
         \E outcomes \in [1..retries -> AttemptOutcomes] :
           LET r == _make_request(outcomes, retries)
           IN  last' = [op |-> "_make_request", retries |-> retries,
                        outcomes |-> outcomes, status |-> r.status,
                        attempts |-> r.attempts, waits |-> r.waits]
    /\ UNCHANGED <<_CITY_CACHE, now, inflight, gatewayVars>>

InitRequest == Init /\ app = "Fastapi"

NextRequest == CallMakeRequest

\* one upstream request per behaviour
SpecRequest == InitRequest /\ [][NextRequest]_vars

(* ---------------------------- place search ---------------------------- *)
(* src/main/llm_tools/googleapi_tool.py: TravelAssistant                  *)

\* most places the nearby search answers with, and largest max_places
MaxPlaces == 3

\* raw place names of the nearby search
Names == {"X", "X (2)"}

\* the 'results' of a nearby search: the raw names, place i carrying the
\* place_id i
SearchResults == UNION {[1..n -> Names] : n \in 0..MaxPlaces}

\* what the attempts of one upstream request meet
Answered == [i \in 1..max_retries |-> "ok"]
AnsweredLate == [i \in 1..max_retries |-> IF i = 1 THEN "timeout" ELSE "ok"]
Unanswered == [i \in 1..max_retries |-> "timeout"]

\* googleapi_tool.py:149, 52, 214 - self._make_request(url, params) returns
Succeeds(run) ==
    _make_request(run, max_retries).status = "ok"

\* an optional value: None, or the value
None == <<>>
Some(v) == <<v>>

\* the latitudes of a place: its own, told by its place_id, or the equator
Latitudes(place_id) == {place_id, 0}

\* googleapi_tool.py:48 - the 'result' of a details answer for a place at
\* latitude lat, with the fields "reviews,editorial_summary,geometry"
Details(lat) ==
    [geometry |-> [lat |-> lat, lng |-> 9],
     editorial_summary |-> "overview",
     reviews |-> <<"good", "", "fine">>]

\* googleapi_tool.py:43-57 - the details of _fetch_place_details
_fetch_place_details(lat, run) ==
    IF Succeeds(run) THEN Details(lat) ELSE EmptyDict

\* mutant of Numbered: the counter is left out
Numbered_NoCounter(name, k) ==
    name

\* googleapi_tool.py:71 - f"{name} ({name_counts[name]})"
Numbered(name, k) ==
    name \o " (" \o ToString(k) \o ")"

\* googleapi_tool.py:64-70 - the loop from names[i] on
RECURSIVE unique_names_loop(_, _, _, _)
unique_names_loop(names, i, name_counts, unique_names) ==
    IF i > Len(names)
    THEN unique_names
    ELSE LET name == names[i]
         IN  IF name \notin DOMAIN name_counts
             THEN unique_names_loop(names, i + 1, Put(name_counts, name, 1),
                                    Append(unique_names, name))
             ELSE unique_names_loop(names, i + 1,
                                    Put(name_counts, name, name_counts[name] + 1),
                                    Append(unique_names,
                                           Numbered(name, name_counts[name] + 1)))

\* googleapi_tool.py:59-72
_get_unique_names(names) ==
    unique_names_loop(names, 1, EmptyDict, <<>>)

\* the orders in which the futures of the detail fetches complete
Submitted(n) == [i \in 1..n |-> i]
Reversed(n) == [i \in 1..n |-> n + 1 - i]
CompletionOrders(n) == {Submitted(n), Reversed(n)}

\* googleapi_tool.py:184-187 - for future in as_completed(...):
\* place_details[name] = details
RECURSIVE as_completed(_, _, _, _, _)
as_completed(done, unique_names, lats, detail_runs, place_details) ==
    IF done = <<>>
    THEN place_details
    ELSE LET i == Head(done)
         IN  as_completed(Tail(done), unique_names, lats, detail_runs,
                          Put(place_details, unique_names[i],
                              _fetch_place_details(lats[i], detail_runs[i])))

\* googleapi_tool.py:199 - if location.get('lat') and location.get('lng')
HasLocation(details) ==
    /\ "geometry" \in DOMAIN details
    /\ details.geometry.lat # 0
    /\ details.geometry.lng # 0

\* place_details.get(name, {})
DetailsOf(place_details, name) ==
    IF name \in DOMAIN place_details THEN place_details[name] ELSE EmptyDict

\* googleapi_tool.py:195-200 - the keys of valid_coords in insertion order
RECURSIVE valid_coords(_, _, _, _)
valid_coords(unique_names, i, place_details, coord_names) ==
    IF i > Len(unique_names)
    THEN coord_names
    ELSE LET name == unique_names[i]
             known == \E j \in 1..Len(coord_names) : coord_names[j] = name
         IN  valid_coords(unique_names, i + 1, place_details,
                 IF HasLocation(DetailsOf(place_details, name)) /\ ~known
                 THEN Append(coord_names, name)
                 ELSE coord_names)

\* the answers of the distance matrix: the request fails, or its status
\* is not OK, or it has no rows, or a row of elements, one status each,
\* for the first destinations
DistanceAnswers(n) ==
    {[run |-> Unanswered, status |-> "OK", rows |-> 1, elements |-> <<>>],
     [run |-> Answered, status |-> "OVER_QUERY_LIMIT", rows |-> 1, elements |-> <<>>],
     [run |-> Answered, status |-> "OK", rows |-> 0, elements |-> <<>>]}
    \cup {[run |-> Answered, status |-> "OK", rows |-> 1, elements |-> e] :
            e \in UNION {[1..m -> {"OK", "ZERO_RESULTS"}] : m \in 0..n}}

\* googleapi_tool.py:231-232 - element['distance']['text'] for a location
DistanceText(location) ==
    ToString(location.lat) \o " km"

\* googleapi_tool.py:202-242 - the dict distances
Distances(coord_names, place_details, answer) ==
    IF coord_names = <<>>
    THEN EmptyDict
    ELSE IF ~Succeeds(answer.run) \/ answer.status # "OK" \/ answer.rows = 0
    THEN [name \in {coord_names[i] : i \in 1..Len(coord_names)} |->
            "Distance unavailable"]
    ELSE [name \in {coord_names[i] : i \in 1..Len(coord_names)} |->
            LET i == CHOOSE j \in 1..Len(coord_names) : coord_names[j] = name
            IN  IF i <= Len(answer.elements)
                THEN IF answer.elements[i] = "OK"
                     THEN DistanceText(place_details[name].geometry)
                     ELSE "Distance unavailable (" \o answer.elements[i] \o ")"
                ELSE "Distance unavailable (no data)"]

\* googleapi_tool.py:252-253 - the texts of the reviews that are not empty
ReviewTexts(details) ==
    IF "reviews" \in DOMAIN details
    THEN SelectSeq(details.reviews, LAMBDA r : r # "")
    ELSE <<>>

\* " ".join(texts)
RECURSIVE Join(_)
Join(texts) ==
    IF texts = <<>> THEN ""
    ELSE IF Len(texts) = 1 THEN texts[1]
    ELSE texts[1] \o " " \o Join(Tail(texts))

\* googleapi_tool.py:9-17, 84 - the summarization libraries are not
\* installed, or they are and stopwords.words('german') answers, or they
\* are and it raises
SummarizerModes == {"unavailable", "available", "failed"}

\* googleapi_tool.py:107-114 - what the LSA summarizer does with the
\* reviews of one place
LsaOutcomes == {"summary", "blank", "raises"}

\* googleapi_tool.py:79 - the summary of one place without the libraries
FallbackSummary(reviews) ==
    IF reviews # <<>> THEN Join(Slice(reviews, 2)) ELSE "No reviews available"

\* googleapi_tool.py:74-119 - reviews_dict maps a name to its reviews, lsa
\* maps a name to what the summarizer does with them
_summarize_reviews(reviews_dict, mode, lsa) ==
    IF mode = "unavailable"
    THEN [name \in DOMAIN reviews_dict |-> FallbackSummary(reviews_dict[name])]
    ELSE IF mode = "failed"
    THEN [name \in DOMAIN reviews_dict |-> Join(Slice(reviews_dict[name], 1))]
    ELSE [name \in DOMAIN reviews_dict |->
            LET reviews == reviews_dict[name]
            IN  IF reviews = <<>> THEN "No reviews available"
                ELSE IF lsa[name] = "summary" THEN "summary"
                ELSE IF lsa[name] = "blank" THEN "Unable to summarize reviews"
                ELSE reviews[1]]

\* googleapi_tool.py:256-267, 276 - place_info of the i-th place
PlaceInfo(i, name, details, distances, review_summaries) ==
    [Name |-> name,
     Place_ID |-> i,
     Distance |-> IF name \in DOMAIN distances THEN distances[name]
                  ELSE "Distance unavailable",
     Description |-> IF "editorial_summary" \in DOMAIN details
                     THEN Some(details.editorial_summary) ELSE None,
     Coordinates |-> IF "geometry" \in DOMAIN details
                     THEN Some(details.geometry) ELSE None,
     Review_Count |-> Len(ReviewTexts(details)),
     Review_Summary |-> IF name \in DOMAIN review_summaries
                        THEN review_summaries[name]
                        ELSE "No reviews available"]

\* googleapi_tool.py:153 - if not places
NoPlaces(places) ==
    places = <<>>

\* googleapi_tool.py:121-289 - the result of find_nearby_places and the
\* number of upstream requests it made, the attempts of one request
\* counted as one
find_nearby_places(results, max_places, search_run, lats, detail_runs, done, answer, mode, lsa) ==
    IF ~Succeeds(search_run)
    THEN [result |-> Raised, requests |-> 1]
    ELSE LET places == Slice(results, max_places)
         IN  IF NoPlaces(places)
             THEN [result |-> Error("No places found matching your criteria"),
                   requests |-> 1]
             ELSE LET unique_names == _get_unique_names(places)
                      place_details ==
                          as_completed(done, unique_names, lats, detail_runs, EmptyDict)
                      coord_names == valid_coords(unique_names, 1, place_details, <<>>)
                      distances == Distances(coord_names, place_details, answer)
                      named == {unique_names[i] : i \in 1..Len(unique_names)}
                      reviews_by_place ==
                          [name \in named |-> ReviewTexts(DetailsOf(place_details, name))]
                      review_summaries ==
                          _summarize_reviews(reviews_by_place, mode,
                                             [name \in named |-> lsa])
                      final_results ==
                          [i \in 1..Len(unique_names) |->
                              PlaceInfo(i, unique_names[i],
                                        DetailsOf(place_details, unique_names[i]),
                                        distances, review_summaries)]
                  IN  [result |-> Payload([places |-> final_results]),
                       requests |-> 1 + Len(places)
                                     + IF coord_names = <<>> THEN 0 ELSE 1]

\* one call of find_nearby_places: the answer of the nearby search, the
\* limit, and what the requests of the call meet
CallFindNearbyPlaces ==
    /\ last = NoCall
    /\ \E results \in SearchResults, max_places \in 0..MaxPlaces,
          search_run \in {Answered, AnsweredLate, Unanswered} :
         LET n == Len(Slice(results, max_places))
             m == IF Succeeds(search_run) THEN n ELSE 0
         IN  \E detail_runs \in [1..m -> {Answered, Unanswered}],
                lats \in {l \in [1..m -> 0..m] : \A i \in 1..m : l[i] \in Latitudes(i)},
                done \in CompletionOrders(m),
                answer \in DistanceAnswers(m),
                mode \in IF m = 0 THEN {"unavailable"} ELSE SummarizerModes,
                lsa \in IF m = 0 THEN {"summary"} ELSE {"summary", "raises"} :
               LET r == find_nearby_places(results, max_places, search_run,
                                       lats, detail_runs, done, answer, mode, lsa)
               IN  last' = [op |-> "find_nearby_places", results |-> results,
                            max_places |-> max_places, search_run |-> search_run,
                            lats |-> lats, detail_runs |-> detail_runs,
                            done |-> done, answer |-> answer, mode |-> mode,
                            result |-> r.result, requests |-> r.requests]
    /\ UNCHANGED <<_CITY_CACHE, now, inflight, gatewayVars>>

\* longest list of names given to _get_unique_names
MaxNames == 4

\* the names of the lists: a name, the same name with a counter, another
RawNames == Names \cup {"Y"}

\* one call of _get_unique_names
CallGetUniqueNames ==
    /\ last = NoCall
    /\ \E n \in 0..MaxNames :
         \E names \in [1..n -> RawNames] :
           last' = [op |-> "_get_unique_names", names |-> names,
                    unique_names |-> _get_unique_names(names)]
    /\ UNCHANGED <<_CITY_CACHE, now, inflight, gatewayVars>>

NextNames == CallGetUniqueNames

\* most reviews a place has
MaxReviews == 3

\* googleapi_tool.py:252-253 - the texts of the reviews of a place
Reviews(n) == [i \in 1..n |-> "review " \o ToString(i)]

\* one call of _summarize_reviews for two places
CallSummarizeReviews ==
    /\ last = NoCall
    /\ \E x \in 0..MaxReviews, y \in 0..MaxReviews, mode \in SummarizerModes :
         \E lsa \in IF mode = "available"
                    THEN [{"X", "Y"} -> LsaOutcomes]
                    ELSE {[name \in {"X", "Y"} |-> "summary"]} :
           LET reviews_dict == [name \in {"X", "Y"} |->
                                  IF name = "X" THEN Reviews(x) ELSE Reviews(y)]
           IN  last' = [op |-> "_summarize_reviews", reviews_dict |-> reviews_dict,
                        mode |-> mode, lsa |-> lsa,
                        summaries |-> _summarize_reviews(reviews_dict, mode, lsa)]
    /\ UNCHANGED <<_CITY_CACHE, now, inflight, gatewayVars>>

NextSummaries == CallSummarizeReviews

\* one call of the review summarizer per behaviour
SpecSummaries == InitRequest /\ [][NextSummaries]_vars

\* one list of names per behaviour
SpecNames == InitRequest /\ [][NextNames]_vars

InitPlaces == Init /\ app = "Fastapi"

NextPlaces == CallFindNearbyPlaces

\* one place search per behaviour
SpecPlaces == InitPlaces /\ [][NextPlaces]_vars

(* ------------------------------- weather ------------------------------- *)
(* src/Fastapi/llm_tools/weather_tool.py, src/Fastapi/agent/agent.py       *)

\* agent.py:46, 211 - the credentials read from the environment
Credentials == {"GOOGLE_API", "TAVILY_API_KEY"}

\* weather_tool.py:5-34
weather_conditions ==
    (0 :> "Clear sky" @@ 1 :> "Mainly clear" @@ 2 :> "Partly cloudy"
     @@ 3 :> "Overcast" @@ 45 :> "Fog" @@ 48 :> "Depositing rime fog"
     @@ 51 :> "Light drizzle" @@ 53 :> "Moderate drizzle"
     @@ 55 :> "Dense drizzle" @@ 56 :> "Light freezing drizzle"
     @@ 57 :> "Dense freezing drizzle" @@ 61 :> "Slight rain"
     @@ 63 :> "Moderate rain" @@ 65 :> "Heavy rain"
     @@ 66 :> "Light freezing rain" @@ 67 :> "Heavy freezing rain"
     @@ 71 :> "Slight snow fall" @@ 73 :> "Moderate snow fall"
     @@ 75 :> "Heavy snow fall" @@ 77 :> "Snow grains"
     @@ 80 :> "Slight rain showers" @@ 81 :> "Moderate rain showers"
     @@ 82 :> "Violent rain showers" @@ 85 :> "Slight snow showers"
     @@ 86 :> "Heavy snow showers" @@ 95 :> "Thunderstorm"
     @@ 96 :> "Thunderstorm with slight hail"
     @@ 99 :> "Thunderstorm with heavy hail")

\* largest weather code given to interpret_weather_code
MaxWeatherCode == 100

\* the weather codes: no code, or a number
WeatherCodes == {None} \cup {Some(code) : code \in -1..MaxWeatherCode}

\* a description, or an exception
Value(v) == [kind |-> "value", value |-> v]

\* mutant of interpret_weather_code: a subscript instead of get
interpret_weather_code_Subscript(weather_code) ==
    IF weather_code # None /\ weather_code[1] \in DOMAIN weather_conditions
    THEN Value(weather_conditions[weather_code[1]])
    ELSE Raised

\* weather_tool.py:35 - weather_conditions.get(weather_code, 'Unknown
\* weather condition')
interpret_weather_code(weather_code) ==
    IF weather_code # None /\ weather_code[1] \in DOMAIN weather_conditions
    THEN Value(weather_conditions[weather_code[1]])
    ELSE Value("Unknown weather condition")

\* d.get(k)
Field(d, k) == IF k \in DOMAIN d THEN Some(d[k]) ELSE None

\* the 'current_weather' of an answer of the weather service
CurrentWeathers ==
    {EmptyDict}
    \cup {[time |-> "noon", temperature |-> 21, windspeed |-> 7,
           winddirection |-> 180, weathercode |-> code, is_day |-> is_day] :
            code \in {0, 4, 99}, is_day \in {0, 1}}

\* the JSON bodies of the weather service
WeatherBodies ==
    {EmptyDict, [error |-> "true", reason |-> "Latitude must be in range of -90 to 90"]}
    \cup {[current_weather |-> cw] : cw \in CurrentWeathers}

\* agent.py:78-79 - what requests.get meets: an exception, or a response
\* with a status code and a body that is JSON or is not
WeatherResponses ==
    {[kind |-> "exception", status_code |-> 0, json |-> FALSE, data |-> EmptyDict]}
    \cup {[kind |-> "response", status_code |-> status, json |-> FALSE, data |-> EmptyDict] :
            status \in {200, 204, 400, 502}}
    \cup {[kind |-> "response", status_code |-> status, json |-> TRUE, data |-> data] :
            status \in {200, 204, 400, 502}, data \in WeatherBodies}

\* agent.py:63-95 - the tool get_weather: its result and the number of
\* upstream requests it made
WeatherTool(latitude, longitude, response) ==
    IF response.kind = "exception" \/ ~response.json
    THEN [result |-> Raised, requests |-> 1]
    ELSE IF response.status_code = 200
    THEN LET current_weather ==
                 IF "current_weather" \in DOMAIN response.data
                 THEN response.data.current_weather ELSE EmptyDict
             description ==
                 interpret_weather_code(Field(current_weather, "weathercode"))
         IN  IF description.kind = "raise"
             THEN [result |-> Raised, requests |-> 1]
             ELSE [result |-> Payload(
                      [time_observed |-> Field(current_weather, "time"),
                       temperature_celsius |-> Field(current_weather, "temperature"),
                       windspeed_kmh |-> Field(current_weather, "windspeed"),
                       wind_direction_degrees |-> Field(current_weather, "winddirection"),
                       weather_description |-> description.value,
                       is_day |-> Field(current_weather, "is_day") = Some(1)]),
                   requests |-> 1]
    ELSE [result |-> Payload(
              [error |-> IF "error" \in DOMAIN response.data
                         THEN response.data.error ELSE "Unknown error",
               status_code |-> response.status_code]),
          requests |-> 1]

\* the coordinates the assistant passes: in range and out of range
LatitudeArgs == {48, 91}
LongitudeArgs == {9, 0 - 181}

\* one call of interpret_weather_code
CallInterpretWeatherCode ==
    /\ last = NoCall
    /\ \E weather_code \in WeatherCodes :
         last' = [op |-> "interpret_weather_code", weather_code |-> weather_code,
                  result |-> interpret_weather_code(weather_code)]
    /\ UNCHANGED <<_CITY_CACHE, now, inflight, gatewayVars>>

\* one call of the tool get_weather
CallWeatherTool ==
    /\ last = NoCall
    /\ \E env \in SUBSET Credentials,
          latitude \in LatitudeArgs, longitude \in LongitudeArgs,
          response \in WeatherResponses :
         LET r == WeatherTool(latitude, longitude, response)
         IN  last' = [op |-> "get_weather", env |-> env, latitude |-> latitude,
                      longitude |-> longitude, response |-> response,
                      result |-> r.result, requests |-> r.requests]
    /\ UNCHANGED <<_CITY_CACHE, now, inflight, gatewayVars>>

NextWeather ==
    \/ CallInterpretWeatherCode
    \/ CallWeatherTool

\* one call of the weather adapter per behaviour
SpecWeather == InitRequest /\ [][NextWeather]_vars

(* ------------------------ the tools of the agent ----------------------- *)
(* src/Fastapi/agent/agent.py                                              *)

\* a str result
Text(text) == [kind |-> "text", text |-> text]

\* most results the search collaborator answers with
MaxResults == 4

\* one result of the search: with a snippet, without the key 'content',
\* or with a null 'content'
SearchResult(i, shape) ==
    IF shape = "snippet" THEN [content |-> Some("snippet " \o ToString(i))]
    ELSE IF shape = "null" THEN [content |-> None]
    ELSE EmptyDict

\* agent.py:212 - what client.search meets: an exception, or a response
\* with a list of results
SearchResponses ==
    {[kind |-> "exception", results |-> <<>>]}
    \cup {[kind |-> "response",
           results |-> [i \in 1..Len(shapes) |-> SearchResult(i, shapes[i])]] :
            shapes \in UNION {[1..n -> {"snippet", "missing", "null"}] :
                                n \in 0..MaxResults}}

\* "\n\n".join(texts)
RECURSIVE JoinParagraphs(_)
JoinParagraphs(texts) ==
    IF texts = <<>> THEN ""
    ELSE IF Len(texts) = 1 THEN texts[1]
    ELSE texts[1] \o "\n\n" \o JoinParagraphs(Tail(texts))

\* mutant of TopResults: every result is kept
TopResults_All(results) ==
    results

\* agent.py:214 - results[:3]
TopResults(results) ==
    Slice(results, 3)

\* agent.py:218 - f"Web search failed: {str(e)}"
Failed(e) ==
    Text("Web search failed: " \o e)

\* mutant of HasCredential: the credential is taken to be there
HasCredential_Always(env, name) ==
    env = env

\* agent.py:46-47, 211 - os.getenv(name) is not empty
HasCredential(env, name) ==
    name \in env

\* agent.py:199-218 - the tool web_search; a snippet that is None makes
\* str.join raise TypeError inside the try
WebSearchTool(env, response) ==
    IF ~HasCredential(env, "TAVILY_API_KEY")
    THEN [result |-> Failed("No API key provided"), requests |-> 0]
    ELSE IF response.kind = "exception"
    THEN [result |-> Failed("connection error"), requests |-> 1]
    ELSE LET results == [i \in 1..Len(response.results) |->
                            IF "content" \in DOMAIN response.results[i]
                            THEN response.results[i].content ELSE Some("")]
             top == TopResults(results)
         IN  IF \E i \in 1..Len(top) : top[i] = None
             THEN [result |-> Failed("expected str instance, NoneType found"),
                   requests |-> 1]
             ELSE [result |-> Text(JoinParagraphs([i \in 1..Len(top) |-> top[i][1]])),
                   requests |-> 1]

\* one call of the tool web_search
CallWebSearchTool ==
    /\ last = NoCall
    /\ \E env \in SUBSET Credentials, response \in SearchResponses :
         LET r == WebSearchTool(env, response)
         IN  last' = [op |-> "web_search", env |-> env, response |-> response,
                      result |-> r.result, requests |-> r.requests]
    /\ UNCHANGED <<_CITY_CACHE, now, inflight, gatewayVars>>

\* agent.py:29-61 - the tool nearby_place_search
NearbyPlaceSearchTool(env, lat, lng, results, max_places, search_run, lats, detail_runs, done, answer, mode, lsa) ==
    IF ~HasCredential(env, "GOOGLE_API")
    THEN [result |-> Error("Google API key not found in environment variables"),
          requests |-> 0]
    ELSE LET r == find_nearby_places(results, max_places, search_run, lats,
                                     detail_runs, done, answer, mode, lsa)
         IN  IF r.result.kind = "raise"
             THEN [result |-> Error("Failed to search nearby places"),
                   requests |-> r.requests]
             ELSE r

\* one call of the tool nearby_place_search, for a nearby search that
\* answers with at most one place
CallNearbyPlaceSearchTool ==
    /\ last = NoCall
    /\ \E env \in SUBSET Credentials,
          lat \in LatitudeArgs, lng \in LongitudeArgs,
          results \in {r \in SearchResults : Len(r) <= 1},
          search_run \in {Answered, Unanswered},
          detail_run \in {Answered, Unanswered},
          answer \in DistanceAnswers(1),
          mode \in SummarizerModes :
         LET r == NearbyPlaceSearchTool(env, lat, lng, results, 1, search_run,
                                        <<1>>, <<detail_run>>, <<1>>, answer,
                                        mode, "summary")
         IN  last' = [op |-> "nearby_place_search", env |-> env,
                      latitude |-> lat, longitude |-> lng, results |-> results,
                      search_run |-> search_run, detail_run |-> detail_run,
                      answer |-> answer, mode |-> mode,
                      result |-> r.result, requests |-> r.requests]
    /\ UNCHANGED <<_CITY_CACHE, now, inflight, gatewayVars>>

NextTools ==
    \/ CallNearbyPlaceSearchTool
    \/ CallWeatherTool
    \/ CallWebSearchTool

\* one call of a tool of the agent per behaviour
SpecTools == InitRequest /\ [][NextTools]_vars

(* --------------------- reading a conversation ------------------------- *)
\* index of the nearest assistant message before position i (0 if none)
NearestAssistant(ms, i) ==
    LET js == {j \in 1..(i - 1) : ms[j].role = "assistant"}
    IN IF js = {} THEN 0 ELSE CHOOSE j \in js : \A k \in js : k <= j

\* the tool messages that answer the assistant message at position j
Answers(ms, j) ==
    {k \in (j + 1)..Len(ms) : ms[k].role = "tool" /\ NearestAssistant(ms, k) = j}

\* every tool call of the assistant message at j has exactly one answer
Resolved(ms, j) ==
    \A n \in 1..Len(ms[j].tool_calls) :
        Cardinality({k \in Answers(ms, j) :
                        ms[k].tool_call_id = ms[j].tool_calls[n].id}) = 1

\* every tool message answers exactly one call of its nearest assistant message
ToolMessagesMatch(ms) ==
    \A k \in 1..Len(ms) :
        ms[k].role = "tool" =>
            LET j == NearestAssistant(ms, k)
            IN /\ j > 0
               /\ Cardinality({n \in 1..Len(ms[j].tool_calls) :
                                  ms[j].tool_calls[n].id = ms[k].tool_call_id}) = 1

\* every assistant message of ms that requests tools is resolved
AllResolved(ms) ==
    \A j \in 1..Len(ms) : ms[j].role = "assistant" => Resolved(ms, j)

UserCount(ms) == Cardinality({i \in 1..Len(ms) : ms[i].role = "user"})

(* ------------------------------- claims -------------------------------- *)
\* C1: in every conversation, every tool message's tool_call_id is the id of
\* exactly one tool call of the nearest preceding assistant message, and
\* whenever llm_call is about to run, every tool call of every assistant
\* message it reads has been answered by exactly one tool message.
C1_ToolCallsResolvedBeforeReasoning ==
    /\ \A t \in Threads : ToolMessagesMatch(memory[t])
    /\ \A c \in Conns :
          /\ ToolMessagesMatch(state[c])
          /\ pc[c] = "llm_call" => AllResolved(state[c])

\* C2: a run starts in llm_call; it reaches END exactly when the assistant
\* message just produced has no tool calls, and then that message is the
\* last one of the conversation and carries the reply; it goes to tool_node
\* exactly when the message has tool calls; tool_node always goes back to
\* llm_call.
C2_LoopRouting ==
    [][\A c \in Conns :
        /\ (~Running(c) /\ Running(c)') => pc'[c] = "llm_call"
        /\ (pc[c] = "llm_call" /\ pc'[c] \in {"recv", "environment"}) =>
              LET ms == memory'[ConfigThread(c)]
                  m == ms[Len(ms)]
              IN /\ m.role = "assistant"
                 /\ pc'[c] = "recv" <=> Len(m.tool_calls) = 0
                 /\ pc'[c] = "environment" <=> Len(m.tool_calls) > 0
                 /\ pc'[c] = "recv" => m.content = "reply"
        /\ pc[c] = "environment" => pc'[c] \in {"environment", "llm_call"}
      ]_vars

\* C3: when tool_node handles a tool call whose name is not registered, the
\* run goes on to llm_call and the conversation holds a tool message with an
\* error payload for that call id.
C3_UnknownToolBecomesErrorResult ==
    [][\A c \in Conns :
        (pc[c] = "environment" /\ pc'[c] # "environment") =>
            LET calls == state[c][Len(state[c])].tool_calls
            IN \A n \in 1..Len(calls) :
                  calls[n].name \notin tools_by_name =>
                     /\ pc'[c] = "llm_call"
                     /\ \E k \in (Len(state[c]) + 1)..Len(state'[c]) :
                           /\ state'[c][k].role = "tool"
                           /\ state'[c][k].tool_call_id = calls[n].id
                           /\ state'[c][k].content = "error"
      ]_vars

\* C4: when tool_node dispatches calls to registered tools only, whatever
\* their collaborators do, no exception leaves a tool: the step appends
\* exactly one tool message per call and the run goes on to llm_call.
C4_RegisteredToolsNeverRaise ==
    [][\A c \in Conns :
        (pc[c] = "environment" /\ pc'[c] # "environment") =>
            LET calls == state[c][Len(state[c])].tool_calls
            IN (\A n \in 1..Len(calls) : calls[n].name \in tools_by_name) =>
                  /\ pc'[c] = "llm_call"
                  /\ Len(state'[c]) = Len(state[c]) + Len(calls)
                  /\ \A n \in 1..Len(calls) :
                        /\ state'[c][Len(state[c]) + n].role = "tool"
                        /\ state'[c][Len(state[c]) + n].tool_call_id = calls[n].id
      ]_vars

C6_NoUserMessageAfterUnresolvedCalls ==
    \A t \in Threads :
        \A i \in 1..Len(memory[t]) :
            memory[t][i].role = "user" =>
                \A j \in 1..(i - 1) :
                    memory[t][j].role = "assistant" =>
                        Resolved(SubSeq(memory[t], 1, i - 1), j)

\* C7: when the reasoning-model call fails, the run stops without appending
\* anything to the conversation, and the last thing the gateway gave the
\* client is a failure signal (not stream content, not silence).
C7_ModelFailureIsSurfaced ==
    [][\A c \in Conns :
        (pc[c] = "llm_call" /\ pc'[c] = "llm_failed") =>
            /\ memory' = memory
            /\ sent'[c] # <<>>
            /\ sent'[c][Len(sent'[c])] \notin {"reply", "", "ok", "error"}
      ]_vars

\* a connection that has been served: its handler waits for the next
\* utterance after a run that ended normally
Served(c) == pc[c] = "recv" /\ sent[c] # <<>>

\* C8: once two callers with distinct thread identifiers have both been
\* served, the conversation of each holds only messages of its own session.
C8_NoCrossSessionLeak ==
    ((\A c \in Conns : Served(c)) /\ tid["c1"] # tid["c2"]) =>
        \A c \in Conns :
            \A i \in 1..Len(memory[ConfigThread(c)]) :
                memory[ConfigThread(c)][i].sess = tid[c]

\* C9: no two runs are in progress at the same time on one thread_id.
C9_OneRunPerThread ==
    \A c, d \in Conns :
        (c # d /\ Running(c) /\ Running(d)) => ConfigThread(c) # ConfigThread(d)

\* the gateway of c reads one utterance in this step
Reads(c) == pc[c] = "recv" /\ pc'[c] # "recv"

\* C10: on one connection a run starts only by the gateway reading one
\* utterance, which it does only while no run of the connection is in
\* progress and removes exactly one utterance from the channel; the read
\* appends exactly one user message to the session's conversation; and when
\* the websocket gateway is back at reading after a run, the last thing
\* it sent is the reply.
C10_OneRunPerUtterance ==
    [][\A c \in Conns :
        /\ (~Running(c) /\ Running(c)') =>
              /\ Reads(c)
              /\ pending'[c] = pending[c] - 1
              /\ pc'[c] = "llm_call"
              /\ memory'[ConfigThread(c)] =
                    Append(memory[ConfigThread(c)], HumanMessage(tid[c]))
              /\ UserCount(state'[c]) = UserCount(memory[ConfigThread(c)]) + 1
        /\ (Running(c) /\ pc'[c] # "llm_failed" /\ pc'[c] # "tool_raised") =>
              /\ pending'[c] >= pending[c]
              /\ state'[c] # <<>> => UserCount(state'[c]) = UserCount(state[c])
        /\ (Running(c) /\ pc'[c] = "recv" /\ app # "app") =>
              sent'[c][Len(sent'[c])] = "reply"
      ]_vars

\* C10 witness: the second utterance of a connection is being served after
\* the run of the first one ended with a reply
C10_Witness ==
    \E c \in Conns :
        /\ Running(c)
        /\ UserCount(state[c]) = 2
        /\ Len(state[c]) >= 3
        /\ state[c][2].role = "assistant"
        /\ Len(state[c][2].tool_calls) = 0

\* C11: when the client's channel is closed and the run of its connection
\* leaves an Acting step, the run has been cancelled (it does not go on to
\* another Reasoning step), and the stored conversation has gained either
\* all tool messages of that step, one per call in request order, or none.
C11_CloseCancelsActingStep ==
    [][\A c \in Conns :
        (pc[c] = "environment" /\ ~open[c] /\ pc'[c] # "environment") =>
            LET t == ConfigThread(c)
                calls == state[c][Len(state[c])].tool_calls
            IN /\ pc'[c] # "llm_call"
               /\ \/ memory'[t] = memory[t]
                  \/ /\ Len(memory'[t]) = Len(memory[t]) + Len(calls)
                     /\ SubSeq(memory'[t], 1, Len(memory[t])) = memory[t]
                     /\ \A n \in 1..Len(calls) :
                           /\ memory'[t][Len(memory[t]) + n].role = "tool"
                           /\ memory'[t][Len(memory[t]) + n].tool_call_id = calls[n].id
      ]_vars

\* sequence a is a prefix of sequence b
IsPrefix(a, b) ==
    Len(a) <= Len(b) /\ SubSeq(b, 1, Len(a)) = a

\* C12: every step leaves the stored conversation of every thread_id a
\* prefix of what the store holds afterwards (by transitivity, this is the
\* prefix relation between any two states of the store), and llm_call and
\* tool_node only add messages to the conversation of their run.
C12_ConversationAppendOnly ==
    [][/\ \A t \in Threads : IsPrefix(memory[t], memory'[t])
       /\ \A c \in Conns :
             (Running(c) /\ Running(c)') => IsPrefix(state[c], state'[c])
      ]_vars

\* the last message of the stored conversation of c's thread
LastStored(c) ==
    memory[ConfigThread(c)][Len(memory[ConfigThread(c)])]

\* C13: whatever number of rounds a run has done, it ends exactly when the
\* reasoning model returns an assistant message with zero tool calls (a
\* failing model call aside): a run that stops has just stored such a
\* message, a run that stores such a message stops, and a message with tool
\* calls always sends the run to another Acting step.
C13_RunEndsOnlyOnFinalAnswer ==
    [][\A c \in Conns :
        /\ (Running(c) /\ ~Running(c)' /\ pc'[c] # "llm_failed") =>
              /\ pc[c] = "llm_call"
              /\ LastStored(c)'.role = "assistant"
              /\ Len(LastStored(c)'.tool_calls) = 0
        /\ (pc[c] = "llm_call" /\ pc'[c] # "llm_call" /\ pc'[c] # "llm_failed") =>
              /\ Len(LastStored(c)'.tool_calls) = 0 => ~Running(c)'
              /\ Len(LastStored(c)'.tool_calls) > 0 => pc'[c] = "environment"
      ]_vars

(* ------------------- claims on the event listings adapter -------------- *)
\* this step is a call of operation op that returned
Returned(op) ==
    /\ last' # last
    /\ last'.op = op
    /\ last'.result.kind # "raise"

\* the counts get_available_categories gives for the content of a slot
CountsOf(all_events) ==
    [c \in {x \in DOMAIN all_events : Len(all_events[x]) > 0} |-> Len(all_events[c])]

SameEvents(given, held) ==
    /\ Len(given) = Len(held)
    /\ \A i \in 1..Len(given) :
          /\ given[i].title = held[i].title
          /\ given[i].event_url = held[i].event_url

\* C15: a call of get_events_by_category with a valid category that finds
\* the slot of its lower-cased city and epoch and does not force a refresh
\* runs no scrape and gives events of the slot's content, and leaves the
\* slot's events in place; a call that forces a refresh or finds no slot
\* runs exactly one scrape, whose result takes the slot: afterwards the slot
\* holds a scrape result whose events carry no description except the ones
\* this call gives back.
C15_EventListingUsesOrFillsSlot ==
    [][(Returned("get_events_by_category") /\ IsValidCategory(last'.category)) =>
          LET key == last'.key
              category == last'.category
              given == last'.result.events
          IN IF ~last'.force_refresh /\ key \in DOMAIN _CITY_CACHE
             THEN /\ last'.scraped = 0
                  /\ \E n \in MaxEventsArgs :
                        SameEvents(given, Slice(Get(_CITY_CACHE[key], category), n))
                  /\ DOMAIN _CITY_CACHE'[key] = DOMAIN _CITY_CACHE[key]
                  /\ \A c \in DOMAIN _CITY_CACHE[key] :
                        SameEvents(_CITY_CACHE'[key][c], _CITY_CACHE[key][c])
             ELSE /\ last'.scraped = 1
                  /\ key \in DOMAIN _CITY_CACHE'
                  /\ \E fresh \in ScrapeResults :
                        /\ DOMAIN _CITY_CACHE'[key] = DOMAIN fresh
                        /\ \A c \in DOMAIN fresh :
                              SameEvents(_CITY_CACHE'[key][c], fresh[c])
                  /\ \E n \in MaxEventsArgs :
                        SameEvents(given, Slice(Get(_CITY_CACHE'[key], category), n))
                  /\ \A c \in DOMAIN _CITY_CACHE'[key] :
                        \A i \in 1..Len(_CITY_CACHE'[key][c]) :
                           IF c = category /\ i <= Len(given)
                           THEN _CITY_CACHE'[key][c][i] = given[i]
                           ELSE _CITY_CACHE'[key][c][i].description = ""
      ]_vars

\* C15 witness: an event listing without forced refresh, under the other
\* spelling of the city, served from the slot that the keyword search just
\* before it filled
C15_Witness ==
    /\ last.op = "get_events_by_category"
    /\ ~last.force_refresh
    /\ last.scraped = 0
    /\ last.prev = [op |-> "search_events", scraped |-> 1]
    /\ last.result.kind = "events"
    /\ Len(last.result.events) = 2

\* C16: the tool get_detailed_events_tool called with a category outside
\* the ten valid ones gives an error payload whose text carries the rejected
\* category and the list of all ten valid categories, and no event list.
C16_InvalidCategoryRejected ==
    [][(Returned("get_detailed_events_tool")
          /\ last'.category \notin {VALID_CATEGORIES[i] : i \in 1..Len(VALID_CATEGORIES)}) =>
          /\ last'.result.kind = "error"
          /\ last'.result.error[2] = last'.category
          /\ last'.result.error[4] = VALID_CATEGORIES
          /\ Len(VALID_CATEGORIES) = 10
          /\ "events" \notin DOMAIN last'.result
          /\ "payload" \notin DOMAIN last'.result
      ]_vars

\* C16 witness: the tool has been called with the category "oper"
C16_Witness ==
    /\ last.op = "get_detailed_events_tool"
    /\ last.category = "oper"
    /\ last.result.kind = "error"

\* C17: the tool get_available_event_categories always gives a payload or a
\* structured error; a payload carries exactly the categories of the cached
\* scrape of the city that have at least one event, each with its number of
\* events, and is never an empty mapping; when the cached scrape has no such
\* category, or the scrape failed, the result is an error.
C17_CategoriesToolNeverEmptySuccess ==
    [][Returned("get_available_event_categories") =>
          LET key == last'.key
              res == last'.result
          IN /\ res.kind \in {"payload", "error"}
             /\ res.kind = "payload" =>
                   /\ key \in DOMAIN _CITY_CACHE'
                   /\ res.payload.available_categories = CountsOf(_CITY_CACHE'[key])
                   /\ res.payload.available_categories # EmptyDict
             /\ (key \in DOMAIN _CITY_CACHE' /\ CountsOf(_CITY_CACHE'[key]) = EmptyDict) =>
                   res.kind = "error"
             /\ key \notin DOMAIN _CITY_CACHE' => res.kind = "error"
      ]_vars

\* C17 witness: the tool answered with an error from a cached scrape that
\* found no events
C17_Witness ==
    /\ last.op = "get_available_event_categories"
    /\ last.result.kind = "error"
    /\ last.key \in DOMAIN _CITY_CACHE
    /\ _CITY_CACHE[last.key] = EmptyDict
    /\ last.scraped = 0

\* the attempts 1..n of a request all failed
AllFailed(outcomes, n) ==
    \A j \in 1..n : outcomes[j] # "ok"

\* C20: a request made through _make_request with the default budget is
\* attempted at most max_retries times; the first attempt that succeeds
\* returns its result and is the last one made; a failed attempt that is
\* not the last is followed by another attempt; when the last attempt
\* fails an exception is raised and no result is returned.
C20_RequestAttemptedAtMostMaxRetries ==
    (last.op = "_make_request" /\ last.retries = max_retries) =>
        /\ last.attempts \in 1..max_retries
        /\ last.status \in {"ok", "raise"}
        /\ AllFailed(last.outcomes, last.attempts - 1)
        /\ last.status = "ok" <=> last.outcomes[last.attempts] = "ok"
        /\ last.status = "raise" <=>
               (last.attempts = max_retries /\ AllFailed(last.outcomes, max_retries))

\* two failed attempts and a third that fails too: the request raises
C20_Witness ==
    /\ last.op = "_make_request"
    /\ last.retries = max_retries
    /\ last.outcomes = <<"timeout", "http_error", "connection_error">>
    /\ last.attempts = 3
    /\ last.status = "raise"

\* the candidates of the last place search: the answer of the nearby
\* search cut to max_places
Candidates ==
    Slice(last.results, last.max_places)

\* the last call was a place search whose nearby search was answered
PlaceSearchAnswered ==
    last.op = "find_nearby_places" /\ Succeeds(last.search_run)

\* C18: a place search with max_places = 0, or whose nearby search matches
\* nothing, returns a success payload with an empty list of places, and
\* not a payload with an `error` key.
C18_EmptySearchIsSuccess ==
    (PlaceSearchAnswered /\ (last.max_places = 0 \/ last.results = <<>>)) =>
        /\ last.result.kind = "payload"
        /\ last.result.payload.places = <<>>

\* the detail fetch of the i-th candidate failed with its retries used up
DetailFetchFailed(i) ==
    _make_request(last.detail_runs[i], max_retries).status = "raise"

\* the fields of a record that come from the details are all empty
EmptyDetailFields(place_info) ==
    /\ place_info.Coordinates = None
    /\ place_info.Description = None
    /\ place_info.Review_Count = 0
    /\ place_info.Distance = "Distance unavailable"

\* C19: a place search whose nearby search gave candidates returns a
\* result whatever detail fetches fail: one record for every candidate,
\* in search order, and the records with empty detail fields are exactly
\* those of the candidates whose detail fetch failed.
C19_FailedDetailsDegradeOnlyTheirRecord ==
    (PlaceSearchAnswered /\ Candidates # <<>>) =>
        /\ last.result.kind = "payload"
        /\ Len(last.result.payload.places) = Len(Candidates)
        /\ \A i \in 1..Len(Candidates) :
              /\ last.result.payload.places[i].Place_ID = i
              /\ EmptyDetailFields(last.result.payload.places[i])
                    <=> DetailFetchFailed(i)

\* the number of times names[i] occurs among names[1..i]
Occurrence(names, i) ==
    Cardinality({j \in 1..i : names[j] = names[i]})

\* C21: _get_unique_names returns a list as long as its input, in which
\* the first occurrence of a name is unchanged and its k-th occurrence,
\* k >= 2, reads "name (k)".
C21_NamesNumberedByOccurrence ==
    last.op = "_get_unique_names" =>
        /\ Len(last.unique_names) = Len(last.names)
        /\ \A i \in 1..Len(last.names) :
              LET k == Occurrence(last.names, i)
              IN  last.unique_names[i] =
                     IF k = 1 THEN last.names[i]
                     ELSE last.names[i] \o " (" \o ToString(k) \o ")"

\* a name that occurs three times, with another name in between
C21_Witness ==
    /\ last.op = "_get_unique_names"
    /\ last.names = <<"X", "Y", "X", "X">>
    /\ last.unique_names = <<"X", "Y", "X (2)", "X (3)">>

\* the records of the last place search
Records ==
    last.result.payload.places

\* the i-th record is the d-th of the records that have coordinates
Destination(i) ==
    Cardinality({j \in 1..i : Records[j].Coordinates # None})

\* the distance request of the last place search failed as a whole
DistanceRequestFailed ==
    \/ ~Succeeds(last.answer.run)
    \/ last.answer.status # "OK"
    \/ last.answer.rows = 0

\* the texts that stand for a distance that is not known
Unavailable ==
    {"Distance unavailable", "Distance unavailable (ZERO_RESULTS)",
     "Distance unavailable (no data)"}

\* C22: a place search that returns places makes one distance request for
\* the places that have coordinates, and every record has a Distance: the
\* distance text of its own element when the request succeeded and the
\* element is OK, and a "Distance unavailable" text when the element is
\* not OK or missing, or the whole request failed, or the place has no
\* coordinates; the search returns its places in each of these cases.
C22_DistancePerDestination ==
    (PlaceSearchAnswered /\ Candidates # <<>>) =>
        /\ last.result.kind = "payload"
        /\ last.requests = 1 + Len(Candidates)
               + IF \E i \in 1..Len(Records) : Records[i].Coordinates # None
                 THEN 1 ELSE 0
        /\ \A i \in 1..Len(Records) :
              IF /\ Records[i].Coordinates # None
                 /\ ~DistanceRequestFailed
                 /\ Destination(i) <= Len(last.answer.elements)
                 /\ last.answer.elements[Destination(i)] = "OK"
              THEN Records[i].Distance \notin Unavailable
              ELSE Records[i].Distance \in Unavailable

\* text is the first reviews of a place, one or more, joined
JoinsFirstReviews(text, reviews) ==
    \E n \in 1..Len(reviews) : text = Join(Slice(reviews, n))

\* C23: _summarize_reviews returns a summary for every place whatever the
\* summarizer does: a place with no reviews gets "No reviews available"
\* in every mode, and without the summarizer, or when it raises, a place
\* with reviews gets its first reviews joined.
C23_SummariesDegrade ==
    last.op = "_summarize_reviews" =>
        /\ DOMAIN last.summaries = DOMAIN last.reviews_dict
        /\ \A name \in DOMAIN last.reviews_dict :
              LET reviews == last.reviews_dict[name]
              IN  /\ reviews = <<>> => last.summaries[name] = "No reviews available"
                  /\ (/\ reviews # <<>>
                      /\ \/ last.mode \in {"unavailable", "failed"}
                         \/ last.lsa[name] = "raises")
                        => JoinsFirstReviews(last.summaries[name], reviews)

\* C24: interpret_weather_code gives the description of the table for a
\* code of the table, and for every other code, and for no code at all,
\* the description "Unknown weather condition"; it raises for none.
C24_UnmappedCodeIsUnknown ==
    last.op = "interpret_weather_code" =>
        /\ last.result.kind = "value"
        /\ last.result.value = "Unknown weather condition"
              <=> last.weather_code \notin
                    {Some(code) : code \in {0, 1, 2, 3, 45, 48, 51, 53, 55, 56,
                                             57, 61, 63, 65, 66, 67, 71, 73, 75,
                                             77, 80, 81, 82, 85, 86, 95, 96, 99}}
        /\ last.weather_code = Some(3) => last.result.value = "Overcast"
        /\ last.weather_code = Some(95) => last.result.value = "Thunderstorm"

\* a code between two codes of the table
C24_Witness ==
    /\ last.op = "interpret_weather_code"
    /\ last.weather_code = Some(4)
    /\ last.result = Value("Unknown weather condition")

\* the last call was a call of the weather tool that got a response
WeatherAnswered ==
    last.op = "get_weather" /\ last.response.kind = "response"

\* C25: for every response of the weather service whose status is not 2xx,
\* whatever its body, get_weather returns an error payload that carries
\* the status code; for a 200 response it returns a record of the current
\* conditions without an error key.
C25_WeatherStatusDecidesPayload ==
    WeatherAnswered =>
        /\ last.response.status_code \notin 200..299 =>
              /\ last.result.kind = "payload"
              /\ "error" \in DOMAIN last.result.payload
              /\ last.result.payload.status_code = last.response.status_code
        /\ last.response.status_code = 200 =>
              /\ last.result.kind = "payload"
              /\ "error" \notin DOMAIN last.result.payload
              /\ "weather_description" \in DOMAIN last.result.payload

\* the texts web_search gives for a failure
WebSearchFailures ==
    {"Web search failed: " \o e :
        e \in {"No API key provided", "connection error",
               "expected str instance, NoneType found"}}

\* the snippet of the i-th result of the last search, empty without one
Snippet(i) ==
    IF "content" \in DOMAIN last.response.results[i]
       /\ last.response.results[i].content # None
    THEN last.response.results[i].content[1]
    ELSE ""

\* the last search failed: no credential, or the collaborator raised, or
\* one of the first three snippets is null
WebSearchFails ==
    \/ "TAVILY_API_KEY" \notin last.env
    \/ last.response.kind = "exception"
    \/ \E i \in 1..Len(last.response.results) :
          i <= 3 /\ last.response.results[i] = [content |-> None]

\* C26: web_search returns text and nothing else: when the search fails, a
\* text that begins "Web search failed:", and otherwise the snippets of the
\* first three results, or of all when there are fewer, joined in order.
C26_WebSearchReturnsText ==
    last.op = "web_search" =>
        /\ last.result.kind = "text"
        /\ IF WebSearchFails
           THEN last.result.text \in WebSearchFailures
           ELSE LET n == Len(last.response.results)
                IN  last.result.text =
                      IF n = 0 THEN ""
                      ELSE IF n = 1 THEN Snippet(1)
                      ELSE IF n = 2 THEN Snippet(1) \o "\n\n" \o Snippet(2)
                      ELSE Snippet(1) \o "\n\n" \o Snippet(2) \o "\n\n" \o Snippet(3)

\* four results, the fourth with a null snippet: the first three are joined
C26_Witness ==
    /\ last.op = "web_search"
    /\ Len(last.response.results) = 4
    /\ last.response.results[4] = [content |-> None]
    /\ last.result = Text("snippet 1\n\nsnippet 2\n\nsnippet 3")

\* the credential the tool of the last call reads, if it reads one
Needs ==
    IF last.op = "nearby_place_search" THEN {"GOOGLE_API"}
    ELSE IF last.op = "web_search" THEN {"TAVILY_API_KEY"}
    ELSE {}

\* the result of the last call when every credential is there
WithEveryCredential ==
    IF last.op = "nearby_place_search"
    THEN NearbyPlaceSearchTool(Credentials, last.latitude, last.longitude,
                               last.results, 1, last.search_run, <<1>>,
                               <<last.detail_run>>, <<1>>, last.answer,
                               last.mode, "summary").result
    ELSE IF last.op = "web_search"
    THEN WebSearchTool(Credentials, last.response).result
    ELSE WeatherTool(last.latitude, last.longitude, last.response).result

\* C27: a tool whose credential is absent answers with an error response
\* and does not raise, nearby_place_search doing so without a request to
\* the place API; a tool whose own credential is there, or that needs
\* none, returns what it returns when every credential is there.
C27_MissingCredentialDegradesOneTool ==
    last.op \in {"nearby_place_search", "web_search", "get_weather"} =>
        IF Needs \subseteq last.env
        THEN last.result = WithEveryCredential
        ELSE /\ last.op = "nearby_place_search" =>
                  /\ last.result.kind = "error"
                  /\ last.requests = 0
             /\ last.op = "web_search" =>
                  /\ last.result.kind = "text"
                  /\ last.result.text \in WebSearchFailures

\* the place credential is absent, the search credential is there, and
\* the place search would have found a place
C27_Witness ==
    /\ last.op = "nearby_place_search"
    /\ last.env = {"TAVILY_API_KEY"}
    /\ last.results = <<"X">>
    /\ last.search_run = Answered
    /\ last.result.kind = "error"
    /\ last.requests = 0

\* C28: a call of the place-search or weather tool with a latitude outside
\* [-90, 90] or a longitude outside [-180, 180] is answered with an error
\* payload and makes no upstream request.
C28_CoordinatesValidated ==
    (/\ last.op \in {"nearby_place_search", "get_weather"}
     /\ \/ last.latitude < 0 - 90 \/ last.latitude > 90
        \/ last.longitude < 0 - 180 \/ last.longitude > 180) =>
        /\ last.requests = 0
        /\ \/ last.result.kind = "error"
           \/ last.result.kind = "payload" /\ "error" \in DOMAIN last.result.payload

\* C29: _add_descriptions_to_events never fails its batch: for 'kino' it
\* fetches nothing and leaves the events as they are; for another category
\* an event whose page cannot be fetched gets the placeholder text and the
\* others are still described; the events keep their number and order.
C29_EnrichmentNeverFailsBatch ==
    last.op = "_add_descriptions_to_events" =>
        /\ ~last.raised
        /\ Len(last.described) = Len(last.events)
        /\ \A i \in 1..Len(last.events) :
              last.described[i].title = last.events[i].title
        /\ last.category = "kino" =>
              last.described = last.events /\ last.fetched = 0
        /\ last.category # "kino" =>
              \A i \in 1..Len(last.events) :
                 last.events[i].event_url # "" =>
                    last.described[i].description =
                       IF last.fetch.pages[i] = "error"
                       THEN "Description could not be loaded"
                       ELSE "text"

\* C30: whatever gateway is running, everything it has sent to a client is
\* the non-empty text of an assistant reply: no tool result, no user
\* message, no empty fragment of an assistant message that only calls tools.
C30_OnlyAssistantTextIsSent ==
    \A c \in Conns :
        \A i \in 1..Len(sent[c]) :
            sent[c][i] \notin {"", "ok", "error", "utterance"}

\* the events of a scrape result, category by category, are those of another
\* (titles and links; descriptions are written later, into the events)
SameScrape(held, scraped) ==
    /\ DOMAIN held = DOMAIN scraped
    /\ \A c \in DOMAIN held : SameEvents(held[c], scraped[c])

\* the scrape results the requests have obtained so far
Scrapes == {inflight.origin[id] : id \in DOMAIN inflight.origin}

\* C31: whatever the interleaving of two event requests for one city in one
\* epoch, the slot holds the whole result of one of the scrapes run, never
\* parts of two, and a request that returns events returns the first events
\* of the requested category of one scrape
C31_RacingRequestsKeepWholeScrapes ==
    /\ \A key \in DOMAIN _CITY_CACHE :
          \E scraped \in Scrapes : SameScrape(_CITY_CACHE[key], scraped)
    /\ \A r \in Requests :
          LET q == inflight.req[r]
          IN (q.pc = "done" /\ q.result.kind = "events") =>
                \E scraped \in Scrapes :
                   SameEvents(q.result.events,
                              Slice(Get(scraped, q.category), q.max_events))

\* both requests scraped, their results differ, both stored and returned
C31_Witness ==
    /\ \A r \in Requests :
          /\ inflight.req[r].pc = "done"
          /\ inflight.req[r].result.kind = "events"
          /\ inflight.req[r].obj = r
    /\ DOMAIN inflight.origin["r1"] # DOMAIN inflight.origin["r2"]
    /\ inflight.origin["r1"] # EmptyDict
    /\ inflight.origin["r2"] # EmptyDict

\* a call of one of the operations of EventScraperTool that looked the
\* cache up without a forced refresh has returned or raised
LookedUp ==
    /\ last' # last
    /\ last'.op \in {"get_events_by_category", "get_available_categories", "search_events"}
    /\ ~last'.force_refresh
    /\ last'.result.kind # "error"

\* the epoch of the instant t
Epoch(t) == t \div _CACHE_TIMEOUT

\* C32: a slot is written only under the epoch of the instant of the write,
\* and a request without forced refresh runs no scrape only if a slot of its
\* lower-cased city and of its own epoch exists; otherwise it runs one
\* scrape, whichever slots earlier epochs left
C32_SlotServedOnlyInItsEpoch ==
    [][/\ \A key \in DOMAIN _CITY_CACHE' :
             (key \notin DOMAIN _CITY_CACHE \/ _CITY_CACHE'[key] # _CITY_CACHE[key])
                => key[2] = Epoch(now)
       /\ LookedUp =>
             IF <<last'.key[1], Epoch(now)>> \in DOMAIN _CITY_CACHE
             THEN last'.scraped = 0
             ELSE last'.scraped = 1
      ]_vars

\* C32 witness: a request in the second epoch scraped although the slot of
\* the first epoch was there
C32_Witness ==
    /\ last.op = "get_events_by_category"
    /\ ~last.force_refresh
    /\ last.scraped = 1
    /\ last.result.kind = "events"
    /\ Epoch(now) = 1
    /\ <<"berlin", 0>> \in DOMAIN _CITY_CACHE
    /\ <<"berlin", 1>> \in DOMAIN _CITY_CACHE

\* C33: the content of a cache slot changes only in a call that ran a
\* scrape and stored its result under that key; a call served from the slot,
\* with descriptions or without, leaves every slot as it was
C33_SlotChangesOnlyOnStore ==
    [][\A key \in DOMAIN _CITY_CACHE :
          /\ key \in DOMAIN _CITY_CACHE'
          /\ _CITY_CACHE'[key] # _CITY_CACHE[key] =>
                /\ last'.scraped = 1
                /\ last'.key = key
      ]_vars

\* get_events_by_category has just been called with a category outside the
\* valid ones
RejectedListing ==
    /\ last' # last
    /\ last'.op = "get_events_by_category"
    /\ ~IsValidCategory(last'.category)

\* C34: a call of get_events_by_category with an invalid category gives the
\* error, runs no scrape and leaves the cache as it was, with force_refresh
\* set or not
C34_RejectedListingHasNoEffect ==
    [][RejectedListing =>
          /\ last'.result.kind = "error"
          /\ last'.scraped = 0
          /\ _CITY_CACHE' = _CITY_CACHE
      ]_vars

\* C34 witness: a forced refresh with the category "oper" was rejected while
\* the cache held a slot with events
C34_Witness ==
    /\ last.op = "get_events_by_category"
    /\ last.category = "oper"
    /\ last.force_refresh
    /\ last.result.kind = "error"
    /\ last.key \in DOMAIN _CITY_CACHE
    /\ _CITY_CACHE[last.key] # EmptyDict

\* C35: the names _get_unique_names returns are pairwise distinct, whatever
\* the list of raw names
C35_UniqueNamesAreDistinct ==
    last.op = "_get_unique_names" =>
        \A i, j \in 1..Len(last.unique_names) :
           i # j => last.unique_names[i] # last.unique_names[j]

\* C36: in a call of _make_request with a budget of two attempts or more,
\* every failed attempt but the last of the budget is followed by a wait,
\* the first wait is 0.5 s (500 ms) and each further wait is twice the one
\* before it
C36_WaitsDouble ==
    (last.op = "_make_request" /\ last.retries >= 2) =>
        /\ Len(last.waits) = last.attempts - 1
        /\ \A i \in 1..Len(last.waits) :
              last.waits[i] = IF i = 1 THEN 500 ELSE 2 * last.waits[i - 1]
====
